---- MODULE Spec2Model ----
(***************************************************************************)
(* A model of the option pricers of src/models (FITE7405 assignment 3):    *)
(* the KIKO barrier pricer, the American binomial lattice, the Monte Carlo *)
(* pricers with their use of numpy's process-global random generator, the  *)
(* control-variate adjustment and the input validation of each entry point. *)
(*                                                                         *)
(* Real numbers are fixed-point integers: a value v stands for v / SC.     *)
(* exp, sqrt, log and the normal distribution function are computed by     *)
(* series in that arithmetic, so every result carries an error of a few    *)
(* units of 1/SC; the properties below are stated with that in mind.       *)
(***************************************************************************)
EXTENDS Integers, Sequences, FiniteSets, TLC

\* ------------------------------------------------------------------------
\* State
\* ------------------------------------------------------------------------

\* KIKO put, src/models/kiko_quasi_mc.py
VARIABLES
    kS, kK, kr, kT, ksigma, kL, kU, kR, kn,  \* the arguments of kiko_quasi_mc
    kpc,        \* "call" | "simulate" | "returned" | "raised"
    kpath,      \* the row of `paths` evaluated last: n+1 prices, kpath[1] = S
    kpayoffs,   \* payoffs of the rows evaluated so far
    kprice      \* price * Len(kpayoffs) * SC once returned

kvars == <<kS, kK, kr, kT, ksigma, kL, kU, kR, kn, kpc, kpath, kpayoffs, kprice>>

\* American binomial tree, src/models/american_binomial.py, and
\* calculate_american of src/app.py
VARIABLES
    aS, aK, ar, aT, asigma, aN, atype,   \* the arguments of american_binomial
    apc,            \* "call" | "induct" | "returned" | "raised" | "rendered" | "error"
    asset_prices,   \* asset_prices[0..N], built once
    option_values,  \* option_values[0..N], updated in place
    aj, ai,         \* the level and the node the induction is at
    acont, aex,     \* continuation and exercise value of the node updated last
    aupdates,       \* node updates made so far
    aprice,         \* the value american_binomial returned
    aeuro, apremium \* calculate_american: European price and premium shown

avars == <<aS, aK, ar, aT, asigma, aN, atype, apc, asset_prices, option_values,
           aj, ai, acont, aex, aupdates, aprice, aeuro, apremium>>

aargs == <<aS, aK, ar, aT, asigma, aN, atype>>

\* numpy's process-global random generator and the pricing calls that use
\* it, one after another (rcalls, rlast, rfirst) or from two threads (th)
VARIABLES
    rng,        \* np.random's global state: [seed, pos], pos draws since seeding
    rcalls,     \* pricing calls made so far, one after another
    rlast,      \* the call made last: <<[sig, result]>>, <<>> before any
    rfirst,     \* signature -> <<result of the first call with it>>, or <<>>
    th          \* thread -> [req, pc, draws, result] of a concurrent request

rvars == <<rng, rcalls, rlast, rfirst, th>>

\* The control-variate adjustment of one batch of payoffs
\* (arithmetic_basket_mc.py lines 92-133, arithmetic_asian_mc.py lines 139-157)
VARIABLES
    cv_payoffs,         \* the arithmetic payoffs of the batch
    cv_geo_payoffs,     \* the geometric payoffs of the batch
    cv_geo_price,       \* the reference price of the geometric option
    cv_mode,    \* "none" or "geometric"
    cvpc,               \* "start", "coefficient", "adjusted", "done"
    beta, \* the coefficient: [nan, num, den]
    adjusted_payoffs,   \* [nan, nums, den]: the payoffs nums[i] / den
    cvout,              \* what is returned: [nan, sum, ss, den]
    cvwarnings          \* the warnings raised on the way

cvars == <<cv_payoffs, cv_geo_payoffs, cv_geo_price, cv_mode, cvpc,
           beta, adjusted_payoffs, cvout, cvwarnings>>

\* One call of a pricing entry point, from its argument checks to its end
VARIABLES
    ventry,     \* the entry point called
    vargs,      \* its arguments
    vpc,        \* "click", "start", "work", "draw", "nested", "return",
                \* "raised", "failed", "done", "shown"
    vwork,      \* the work done so far: "seed", "draw", "lattice", "formula"
    verr,       \* the message of the error raised, "" when none
    vcaller,    \* "direct", or "callback" for a call through src/app.py
    vout,       \* the values the entry point has returned
    vview       \* what the callback renders: [values, error]

vvars == <<ventry, vargs, vpc, vwork, verr, vcaller, vout, vview>>

\* One call of implied_volatility (src/models/implied_volatility.py)
VARIABLES
    ivS, ivK, ivr, ivq, ivT, ivmarket, ivtype,  \* the arguments
    ivpc,       \* "start", "bracket", "iterate", "returned", "raised", "failed"
    iva, ivb,   \* the ends of the root-finder's bracket
    ivfa, ivfb, \* the function at the ends of the bracket
    ivfirst,    \* the function at the ends of the bracket as first evaluated
    ivattempts, \* the calls of the root-finder made
    ivout,      \* <<the volatility returned>>, <<>> when none
    iverr       \* the error raised: [kind, msg], kind "" when none

ivargs == <<ivS, ivK, ivr, ivq, ivT, ivmarket, ivtype>>

ivvars == <<ivargs, ivpc, iva, ivb, ivfa, ivfb, ivfirst, ivattempts, ivout, iverr>>

\* The figures kiko_quasi_mc reports (src/models/kiko_quasi_mc.py lines
\* 94-134) and the interval calculate_arithmetic_asian displays (src/app.py
\* lines 690-700)
VARIABLES
    qentry,     \* "kiko_quasi_mc" or "calculate_arithmetic_asian"
    qS, qK, qr, qT, qsigma, qL, qU, qR, qn,  \* the arguments of kiko_quasi_mc
    qcalc,      \* calculate_delta
    qtype,      \* option_type of the Asian request
    qpc,        \* "start", "base", "up", "down", "returned", "raised", "rendered"
    qseeds,     \* the seeds of the Sobol generators built so far
    qpoints,    \* the matrices Z, Z_up, Z_down drawn so far
    qprice, qstderr, qconf,         \* price, stderr, conf_interval
    qprice_up, qprice_down, qdelta  \* the bumped prices and delta

qargs == <<qS, qK, qr, qT, qsigma, qL, qU, qR, qn, qcalc, qtype>>

qvars == <<qentry, qargs, qpc, qseeds, qpoints, qprice, qstderr, qconf, qprice_up, qprice_down, qdelta>>

\* The paths the payoffs X[i] and the control payoffs Y[i] of a simulation
\* are computed from (src/models/arithmetic_basket_mc.py lines 66-117,
\* src/models/arithmetic_asian_mc.py lines 134-137)
VARIABLES
    pentry,     \* "arithmetic_basket_mc" or "arithmetic_asian_mc"
    ptype,      \* option_type
    pcv,        \* control_variate
    pM,         \* num_simulations
    ppc,        \* "start", "raised", "simulate", "arith", "reference", "geo", "payoffs", "exact", "returned"
    ppos,       \* the draws made since the generator was seeded
    pXpaths,    \* for each i, the simulated prices X[i] is computed from
    pYpaths,    \* for each i, the simulated prices Y[i] is computed from
    pXdraws,    \* for each i, the draws behind the prices of X[i]
    pYdraws,    \* for each i, the draws behind the prices of Y[i]
    pX, pY,     \* payoffs and geo_payoffs
    pXlevel,    \* for each i, the level arithmetic_avg compared with K
    pYlevel,    \* for each i, the level geo_avg compared with K
    pref,       \* <<the reference value subtracted from Y>>, <<>> before it is computed
    pYdisc,     \* the discount factor the control payoffs carry, 0 before they are computed
    prefdisc    \* the discount factor the reference value carries, 0 before it is computed

pvars == <<pentry, ptype, pcv, pM, ppc, ppos, pXpaths, pYpaths, pXdraws, pYdraws, pX, pY, pXlevel, pYlevel, pref, pYdisc, prefdisc>>

\* The closed forms of the geometric Asian option on one contract
\* (src/models/geometric_asian.py, src/models/arithmetic_asian_mc.py lines
\* 159-219, src/geometric_asian.py)
VARIABLES
    gS, gK, gr, gT, gsigma, gn, gtype,  \* the contract
    gpc,        \* "start", "raised", "exact", "top", "done"
    gvariance,  \* the effective variance sigma_hat^2 * T of each implementation called
    gdrift,     \* the effective drift mu_hat * T of each implementation called
    gprices     \* the price of each implementation called

gvars == <<gS, gK, gr, gT, gsigma, gn, gtype, gpc, gvariance, gdrift, gprices>>

\* What each part of the model leaves alone.
kothers == <<avars, rvars, cvars, vvars, ivvars, qvars, pvars, gvars>>
aothers == <<kvars, rvars, cvars, vvars, ivvars, qvars, pvars, gvars>>
rothers == <<kvars, avars, cvars, vvars, ivvars, qvars, pvars, gvars>>
cothers == <<kvars, avars, rvars, vvars, ivvars, qvars, pvars, gvars>>
vothers == <<kvars, avars, rvars, cvars, ivvars, qvars, pvars, gvars>>
ivothers == <<kvars, avars, rvars, cvars, vvars, qvars, pvars, gvars>>
qothers == <<kvars, avars, rvars, cvars, vvars, ivvars, pvars, gvars>>
pothers == <<kvars, avars, rvars, cvars, vvars, ivvars, qvars, gvars>>
gothers == <<kvars, avars, rvars, cvars, vvars, ivvars, qvars, pvars>>

vars == <<kvars, avars, rvars, cvars, vvars, ivvars, qvars, pvars, gvars>>

\* ------------------------------------------------------------------------
\* Fixed-point arithmetic
\* ------------------------------------------------------------------------

\* One unit of the fixed-point scale: v stands for v / SC.
SC == 10^4

\* Division truncating toward zero (Java's and C's integer division).
TDiv(a, b) == IF a >= 0 THEN a \div b ELSE -((-a) \div b)

Max(a, b) == IF a >= b THEN a ELSE b

Min(a, b) == IF a <= b THEN a ELSE b

Abs(a) == IF a >= 0 THEN a ELSE -a

\* a * b / SC truncated toward zero, the product taken in two parts so that
\* it stays within 32 bits for factors up to 5.0.
MulFx(a, b) ==
    LET m == (Abs(a) \div SC) * Abs(b) + ((Abs(a) % SC) * Abs(b)) \div SC
    IN  IF (a >= 0) = (b >= 0) THEN m ELSE -m

DivFx(a, b) == TDiv(a * SC, b)

RECURSIVE NewtonDown(_, _)
NewtonDown(n, x) ==
    LET y == (x + n \div x) \div 2
    IN  IF y >= x THEN x ELSE NewtonDown(n, y)

\* floor(sqrt(n)) for n >= 0
Isqrt(n) == IF n < 2 THEN n ELSE NewtonDown(n, n)

\* np.sqrt on fixed-point values
SqrtFx(x) == Isqrt(x * SC)

RECURSIVE ExpSeries(_, _, _, _)
ExpSeries(x, term, k, acc) ==
    IF term = 0 THEN acc
    ELSE LET t == TDiv(term * x, k * SC)
         IN  ExpSeries(x, t, k + 1, acc + t)

\* np.exp on fixed-point values: the Taylor series on [-1, 1], halving the
\* argument outside it.
RECURSIVE ExpFx(_)
ExpFx(x) ==
    IF x > SC \/ x < -SC
    THEN LET h == ExpFx(TDiv(x, 2)) IN MulFx(h, h)
    ELSE ExpSeries(x, SC, 1, SC)

RECURSIVE LnSeries(_, _, _, _)
LnSeries(z2, pw, k, acc) ==
    IF pw = 0 THEN acc
    ELSE LnSeries(z2, MulFx(pw, z2), k + 2, acc + TDiv(pw, k))

\* np.log on fixed-point values y > 0: 2 * atanh((y - 1) / (y + 1))
LnFx(y) ==
    LET z == DivFx(y - SC, y + SC)
    IN  2 * LnSeries(MulFx(z, z), z, 1, 0)

\* exp(-t^2 / 2), the standard normal density times sqrt(2 pi)
Gauss(t) == ExpFx(-TDiv(MulFx(t, t), 2))

RECURSIVE SimpsonSum(_, _, _)
SimpsonSum(h, i, n) ==
    IF i > n THEN 0
    ELSE (IF i = 0 \/ i = n THEN 1 ELSE IF i % 2 = 1 THEN 4 ELSE 2) * Gauss(h * i)
         + SimpsonSum(h, i + 1, n)

\* scipy.stats.norm.cdf on fixed-point values: 1/2 plus the integral of the
\* density from 0 to x by Simpson's rule on 16 intervals; 0 or 1 beyond four
\* standard deviations.
PhiFx(x) ==
    LET a == Abs(x)
        h == a \div 16
        area == TDiv(h * SimpsonSum(h, 0, 16), 3 * SC)
        half == TDiv(area * 3989, SC) + TDiv((a - 16 * h) * 3989, SC)
        tail == IF a > 4 * SC THEN SC \div 2 ELSE Min(half, SC \div 2)
    IN  IF x >= 0 THEN SC \div 2 + tail ELSE SC \div 2 - tail

RECURSIVE PowFx(_, _)
PowFx(b, k) == IF k = 0 THEN SC ELSE MulFx(PowFx(b, k - 1), b)

RECURSIVE SumSeq(_)
SumSeq(s) == IF s = <<>> THEN 0 ELSE Head(s) + SumSeq(Tail(s))

\* ------------------------------------------------------------------------
\* KIKO put, quasi-Monte Carlo (src/models/kiko_quasi_mc.py)
\* ------------------------------------------------------------------------

\* Prices, strikes, barriers and the rebate of the KIKO model are integers
\* counting multiples of eps = 1e-8 (kiko_quasi_mc.py line 30), so that
\* "x <= L + eps" is the integer comparison x <= L + Eps.
Eps == 1

\* Bounds of the KIKO model.
MaxPrice == 5
MaxRebate == 3
MaxObs == 2
MaxPaths == 2

KPrices == 1..MaxPrice

LastOf(s) == s[Len(s)]

\* np.any(paths <= L + eps, axis=1) on one row
knock_in(path, L) == \E i \in 1..Len(path) : path[i] <= L + Eps

\* np.any(paths >= U - eps, axis=1) on one row
knock_out(path, U) == \E i \in 1..Len(path) : path[i] >= U - Eps

\* calculate_payoffs with "the first event wins": a knock-out counts only
\* while the row has not been knocked in.
calculate_payoffs_first_event(path, K, L, U, R) ==
    IF \E j \in 1..Len(path) :
          /\ path[j] >= U - Eps
          /\ \A i \in 1..(j - 1) : path[i] > L + Eps
    THEN R
    ELSE IF \E i \in 1..Len(path) : path[i] <= L + Eps
         THEN Max(K - path[Len(path)], 0)
         ELSE 0

\* calculate_payoffs paying the put on the first price of the row.
calculate_payoffs_first_price(path, K, L, U, R) ==
    IF \E i \in 1..Len(path) : path[i] >= U - Eps THEN R
    ELSE IF \E i \in 1..Len(path) : path[i] <= L + Eps
         THEN Max(K - path[1], 0)
         ELSE 0

\* calculate_payoffs on one row of `paths`
calculate_payoffs(path, K, L, U, R) ==
    IF knock_out(path, U) THEN R
    ELSE IF knock_in(path, L) THEN Max(K - path[Len(path)], 0)
    ELSE 0

\* The checks of kiko_quasi_mc without the one on the rebate.
KikoValidateNoRebate(S, K, r, T, sigma, L, U, R, n) ==
    IF S <= 0 \/ K <= 0 \/ sigma <= 0 \/ r < 0 \/ r > SC \/ T <= 0
       \/ L >= U \/ n <= 0
    THEN "invalid"
    ELSE "ok"

\* The checks at the head of kiko_quasi_mc, in order; "ok" when none raises.
KikoValidate(S, K, r, T, sigma, L, U, R, n) ==
    IF S <= 0 THEN "Spot price S must be positive."
    ELSE IF K <= 0 THEN "Strike price K must be positive."
    ELSE IF sigma <= 0 THEN "Volatility sigma must be positive."
    ELSE IF r < 0 \/ r > SC THEN "Risk-free rate r must be between 0 and 1."
    ELSE IF T <= 0 THEN "Time to maturity T must be positive."
    ELSE IF L >= U THEN "Lower barrier L must be less than upper barrier U."
    ELSE IF R < 0 THEN "Cash rebate R must be non-negative."
    ELSE IF n <= 0 THEN "Number of observation times n must be positive."
    ELSE "ok"

\* The spot sits in the middle of the grid, so that barriers on either side
\* of it, and at it, all occur.
KSpot == (MaxPrice + 1) \div 2

KikoInit ==
    /\ kS = KSpot
    /\ kK \in {0, 2, MaxPrice}
    /\ kr \in {0, (5 * SC) \div 100}
    /\ kT = SC
    /\ ksigma = (2 * SC) \div 10
    /\ kL \in KPrices
    /\ kU \in KPrices
    /\ kR \in {-1, 1, MaxRebate}
    /\ kn \in 0..MaxObs
    /\ kpc = "call"
    /\ kpath = <<>>
    /\ kpayoffs = <<>>
    /\ kprice = 0

\* kiko_quasi_mc, lines 76-92: validation
KikoCall ==
    /\ kpc = "call"
    /\ kpc' = IF KikoValidate(kS, kK, kr, kT, ksigma, kL, kU, kR, kn) = "ok"
              THEN "simulate" ELSE "raised"
    /\ UNCHANGED <<kS, kK, kr, kT, ksigma, kL, kU, kR, kn, kpath, kpayoffs, kprice>>
    /\ UNCHANGED kothers

\* simulate_paths and calculate_payoffs for one more of the M rows: the row
\* starts at S and each later price is the one before times exp(drift +
\* vol*Z), any positive price of the grid.
KikoSimulateRow ==
    /\ kpc = "simulate"
    /\ Len(kpayoffs) < MaxPaths
    /\ \E steps \in [1..kn -> KPrices] :
         LET path == [i \in 1..(kn + 1) |-> IF i = 1 THEN kS ELSE steps[i - 1]]
         IN  /\ kpath' = path
             /\ kpayoffs' = Append(kpayoffs, calculate_payoffs(path, kK, kL, kU, kR))
    /\ UNCHANGED <<kS, kK, kr, kT, ksigma, kL, kU, kR, kn, kpc, kprice>>
    /\ UNCHANGED kothers

\* kiko_quasi_mc, lines 106-114: price = exp(-r*T) * mean(payoffs)
KikoReturn ==
    /\ kpc = "simulate"
    /\ Len(kpayoffs) = MaxPaths
    /\ kprice' = ExpFx(-MulFx(kr, kT)) * SumSeq(kpayoffs)
    /\ kpc' = "returned"
    /\ UNCHANGED <<kS, kK, kr, kT, ksigma, kL, kU, kR, kn, kpath, kpayoffs>>
    /\ UNCHANGED kothers

KikoNext == KikoCall \/ KikoSimulateRow \/ KikoReturn

\* ------------------------------------------------------------------------
\* American option, binomial tree (src/models/american_binomial.py) and
\* the callback that shows its early-exercise premium (src/app.py)
\* ------------------------------------------------------------------------

\* Bound of the lattice model: the largest number of steps N.
MaxSteps == 3

\* american_binomial, lines 24-38; "ok" when none raises.
AmValidate(S, K, r, T, sigma, N, option_type) ==
    IF S <= 0 THEN "Spot price S must be positive."
    ELSE IF K <= 0 THEN "Strike price K must be positive."
    ELSE IF r < 0 THEN "Risk-free rate r must be non-negative."
    ELSE IF T <= 0 THEN "Time to maturity T must be positive."
    ELSE IF sigma <= 0 THEN "Volatility sigma must be positive."
    ELSE IF N <= 0 THEN "Number of steps N must be positive."
    ELSE IF option_type \notin {"call", "put"}
         THEN "Option type must be either 'call' or 'put'"
    ELSE "ok"

\* lines 41-44
Dt(T, N) == TDiv(T, N)
UpFactor(sigma, T, N) == ExpFx(MulFx(sigma, SqrtFx(Dt(T, N))))
DownFactor(sigma, T, N) == DivFx(SC, UpFactor(sigma, T, N))
RiskNeutralP(r, sigma, T, N) ==
    DivFx(ExpFx(MulFx(r, Dt(T, N))) - DownFactor(sigma, T, N),
          UpFactor(sigma, T, N) - DownFactor(sigma, T, N))

\* The terminal layer in the opposite order: S * (u ** i) * (d ** (N - i)).
TerminalPriceReversed(S, sigma, T, N, i) ==
    MulFx(MulFx(S, PowFx(UpFactor(sigma, T, N), i)),
          PowFx(DownFactor(sigma, T, N), N - i))

\* line 49: S * (u ** (N - i)) * (d ** i)
TerminalPrice(S, sigma, T, N, i) ==
    MulFx(MulFx(S, PowFx(UpFactor(sigma, T, N), N - i)),
          PowFx(DownFactor(sigma, T, N), i))

\* lines 54-57 and 64-67: the value of exercising at asset price s
Intrinsic(option_type, s, K) == IF option_type = "call" THEN s - K ELSE K - s

\* line 62
Continuation(r, sigma, T, N, v0, v1) ==
    LET p == RiskNeutralP(r, sigma, T, N)
    IN  MulFx(ExpFx(-MulFx(r, Dt(T, N))), MulFx(p, v0) + MulFx(SC - p, v1))

\* lines 64-67 with the comparison dropped: the exercise value is assigned.
NodeValueExerciseOnly(c, e) == e

\* lines 64-67: max(option_values[i], exercise value)
NodeValue(c, e) == Max(c, e)

\* The two entries read one place to the left: for i > 0 the first of them
\* has already been overwritten in the current level.
SuccessorsShifted(values, i) ==
    IF i > 0 THEN <<values[i - 1], values[i]>> ELSE <<values[i], values[i + 1]>>

\* line 62: the two entries of option_values read for node i
Successors(values, i) == <<values[i], values[i + 1]>>

\* The asset price the early-exercise test of level j, node i reads
\* (lines 64-67): asset_prices[i], the terminal layer's entry.
ExercisePrice(prices, S, sigma, T, N, j, i) == prices[i]

AmInit ==
    /\ aS \in {(8 * SC) \div 10, SC, (12 * SC) \div 10}
    /\ aK = SC
    /\ ar \in {0, (5 * SC) \div 100, SC \div 2}
    /\ aT = SC
    /\ asigma \in {(2 * SC) \div 10, (4 * SC) \div 10}
    /\ aN \in 0..MaxSteps
    /\ atype \in {"call", "put"}
    /\ apc = "call"
    /\ asset_prices = <<>>
    /\ option_values = <<>>
    /\ aj = 0 /\ ai = 0 /\ acont = 0 /\ aex = 0 /\ aupdates = 0
    /\ aprice = 0 /\ aeuro = 0 /\ apremium = 0

\* american_binomial, lines 24-57: validation, then the terminal layer
AmCall ==
    /\ apc = "call"
    /\ IF AmValidate(aS, aK, ar, aT, asigma, aN, atype) = "ok"
       THEN /\ apc' = "induct"
            /\ asset_prices' = [i \in 0..aN |-> TerminalPrice(aS, asigma, aT, aN, i)]
            /\ option_values' =
                  [i \in 0..aN |->
                      Max(0, Intrinsic(atype, TerminalPrice(aS, asigma, aT, aN, i), aK))]
            /\ aj' = aN - 1
            /\ ai' = 0
       ELSE /\ apc' = "raised"
            /\ UNCHANGED <<asset_prices, option_values, aj, ai>>
    /\ UNCHANGED <<aargs, acont, aex, aupdates, aprice, aeuro, apremium>>
    /\ UNCHANGED aothers

\* lines 60-67: one pass of the inner loop, node i of level j
AmNode ==
    /\ apc = "induct"
    /\ aj >= 0
    /\ LET c == Continuation(ar, asigma, aT, aN,
                             Successors(option_values, ai)[1],
                             Successors(option_values, ai)[2])
           e == Intrinsic(atype,
                          ExercisePrice(asset_prices, aS, asigma, aT, aN, aj, ai), aK)
       IN  /\ option_values' = [option_values EXCEPT ![ai] = NodeValue(c, e)]
           /\ acont' = c
           /\ aex' = e
    /\ aupdates' = aupdates + 1
    /\ IF ai < aj
       THEN ai' = ai + 1 /\ aj' = aj
       ELSE ai' = 0 /\ aj' = aj - 1
    /\ UNCHANGED <<aargs, apc, asset_prices, aprice, aeuro, apremium>>
    /\ UNCHANGED aothers

\* line 69
AmReturn ==
    /\ apc = "induct"
    /\ aj < 0
    /\ aprice' = option_values[0]
    /\ apc' = "returned"
    /\ UNCHANGED <<aargs, asset_prices, option_values, aj, ai, acont, aex,
                   aupdates, aeuro, apremium>>
    /\ UNCHANGED aothers

\* black_scholes, lines 30-43 of src/models/black_scholes.py
BsValidate(S, K, r, q, T, sigma, option_type) ==
    IF S <= 0 THEN "Spot price S must be positive."
    ELSE IF K <= 0 THEN "Strike price K must be positive."
    ELSE IF r < 0 \/ r > SC THEN "Risk-free rate r must be between 0 and 1."
    ELSE IF q < 0 THEN "Repo rate q must be non-negative."
    ELSE IF T <= 0 THEN "Time to maturity T must be positive."
    ELSE IF sigma <= 0 THEN "Volatility sigma must be positive."
    ELSE IF option_type \notin {"call", "put"}
         THEN "Option type must be either 'call' or 'put'"
    ELSE "ok"

\* black_scholes, lines 45-59. round(price, 10) keeps ten decimals, more than
\* the fixed-point scale holds, and so changes nothing here.
black_scholes(S, K, r, q, T, sigma, option_type) ==
    LET sqT == MulFx(sigma, SqrtFx(T))
        d1 == DivFx(LnFx(DivFx(S, K))
                      + MulFx(r - q + TDiv(MulFx(sigma, sigma), 2), T), sqT)
        d2 == d1 - sqT
        disc_S == ExpFx(-MulFx(q, T))
        disc_K == ExpFx(-MulFx(r, T))
    IN  IF option_type = "call"
        THEN MulFx(MulFx(S, disc_S), PhiFx(d1)) - MulFx(MulFx(K, disc_K), PhiFx(d2))
        ELSE MulFx(MulFx(K, disc_K), PhiFx(-d2)) - MulFx(MulFx(S, disc_S), PhiFx(-d1))

\* calculate_american, lines 795-806 of src/app.py
CalculateAmerican ==
    /\ apc = "returned"
    /\ IF BsValidate(aS, aK, ar, 0, aT, asigma, atype) = "ok"
       THEN /\ aeuro' = black_scholes(aS, aK, ar, 0, aT, asigma, atype)
            /\ apremium' = aprice - black_scholes(aS, aK, ar, 0, aT, asigma, atype)
            /\ apc' = "rendered"
       ELSE /\ apc' = "error"
            /\ UNCHANGED <<aeuro, apremium>>
    /\ UNCHANGED <<aargs, asset_prices, option_values, aj, ai, acont, aex,
                   aupdates, aprice>>
    /\ UNCHANGED aothers

\* calculate_american, lines 802-806: american_binomial raised
CalculateAmericanError ==
    /\ apc = "raised"
    /\ apc' = "error"
    /\ UNCHANGED <<aargs, asset_prices, option_values, aj, ai, acont, aex,
                   aupdates, aprice, aeuro, apremium>>
    /\ UNCHANGED aothers

AmNext == AmCall \/ AmNode \/ AmReturn \/ CalculateAmerican \/ CalculateAmericanError

\* ------------------------------------------------------------------------
\* The random source and the simulation pricers
\* (src/models/arithmetic_basket_mc.py, arithmetic_asian_mc.py,
\* geometric_basket.py)
\* ------------------------------------------------------------------------

\* Bounds: simulated paths per request, and calls made one after another.
NumSim == 1
MaxCalls == 3

\* The values np.random.normal(0, 1) takes in the model.
ZGrid == <<-SC, -(SC \div 2), 0, SC \div 2, SC>>

\* np.random.normal(0, 1): the value is a fixed function of the seed and of
\* the number of draws made since seeding.
Normal(seed, pos) == ZGrid[((seed + 3 * pos + pos * pos) % Len(ZGrid)) + 1]

\* The seeds the code sets: arithmetic_asian_mc.py line 30 (and
\* kiko_quasi_mc.py line 7, at import), arithmetic_basket_mc.py line 66.
SeedAsian == 5
SeedBasket == 42

\* The requests of the model. Two assets at 1.00, volatility 0.3, r = 0.05,
\* T = 1, K = 1.00, rho = 0.5, n = 2 observations (the fewest the basket
\* pricers accept).
ReqS == SC
ReqSigma == (3 * SC) \div 10
ReqR == (5 * SC) \div 100
ReqT == SC
ReqK == SC
ReqRho == SC \div 2
ReqN == 2

Requests ==
    [entry : {"geometric_basket"}, option_type : {"call", "put"}, cv : {"none"}]
    \cup [entry : {"arithmetic_basket_mc", "arithmetic_asian_mc"},
          option_type : {"call", "put"}, cv : {"none", "geometric"}]
    \cup [entry : {"black_scholes"}, option_type : {"call", "put"}, cv : {"none"}]

Payoff(option_type, level, K) ==
    IF option_type = "call" THEN Max(0, level - K) ELSE Max(0, K - level)

\* geometric_basket.py lines 57-58, arithmetic_basket_mc.py lines 78-79:
\* S * exp((r - sigma^2/2) * (j+1) * dt + sigma * sqrt((j+1) * dt) * Z),
\* j counted from 0
BasketPrice(S, sigma, r, dt, j, Z) ==
    MulFx(S, ExpFx(MulFx(r - TDiv(MulFx(sigma, sigma), 2), (j + 1) * dt)
                   + MulFx(MulFx(sigma, SqrtFx((j + 1) * dt)), Z)))

\* lines 76-77 (55-56): Z2 = rho * Z1 + sqrt(1 - rho^2) * Z'
Correlated(rho, Z1, Zp) == MulFx(rho, Z1) + MulFx(SqrtFx(SC - MulFx(rho, rho)), Zp)

\* The two prices of observation j of a path that starts at draw `base`
\* (counted from 1) of `draws`.
S1At(draws, base, j) ==
    BasketPrice(ReqS, ReqSigma, ReqR, ReqT \div ReqN, j, draws[base + 2 * j])

S2At(draws, base, j) ==
    BasketPrice(ReqS, ReqSigma, ReqR, ReqT \div ReqN, j,
                Correlated(ReqRho, draws[base + 2 * j], draws[base + 2 * j + 1]))

RECURSIVE SumTo(_, _)
SumTo(f, k) == IF k < 0 THEN 0 ELSE f[k] + SumTo(f, k - 1)

RECURSIVE ProdTo(_, _)
ProdTo(f, k) == IF k < 0 THEN SC ELSE MulFx(ProdTo(f, k - 1), f[k])

\* arithmetic_basket_mc.py lines 113-117: geo_payoffs[i] = max(0, geo_avg - K),
\* with no discount factor
BasketControlDiscount(r, T) == SC

\* geometric_basket.py lines 64-67: price = exp(-r * T) * max(0, geo_avg - K)
BasketReferenceDiscount(r, T) == ExpFx(-MulFx(r, T))

\* geometric_basket.py line 61:
\* np.exp(np.sum(np.log(S1_path) + np.log(S2_path)) / (2 * n))
reference_geo_avg(S1_path, S2_path) ==
    ExpFx(TDiv(SumTo([j \in 0..(ReqN - 1) |-> LnFx(S1_path[j]) + LnFx(S2_path[j])],
                     ReqN - 1),
               2 * ReqN))

\* geometric_basket.py lines 50-69 on the 2n draws it makes
geometric_basket(option_type, draws) ==
    LET geo_avg == reference_geo_avg([j \in 0..(ReqN - 1) |-> S1At(draws, 1, j)],
                                     [j \in 0..(ReqN - 1) |-> S2At(draws, 1, j)])
    IN  MulFx(BasketReferenceDiscount(ReqR, ReqT), Payoff(option_type, geo_avg, ReqK))

\* arithmetic_basket_mc.py line 82: np.mean(S1_path + S2_path), the mean over
\* the n observations of the sum of the two prices
arithmetic_avg(S1_path, S2_path) ==
    TDiv(SumTo([j \in 0..(ReqN - 1) |-> S1_path[j] + S2_path[j]], ReqN - 1), ReqN)

\* arithmetic_basket_mc.py lines 81-88: the payoff of the path that starts
\* at draw `base`
BasketArithPayoff(option_type, draws, base) ==
    Payoff(option_type,
           arithmetic_avg([j \in 0..(ReqN - 1) |-> S1At(draws, base, j)],
                          [j \in 0..(ReqN - 1) |-> S2At(draws, base, j)]),
           ReqK)

\* arithmetic_basket_mc.py line 111: np.sqrt(np.prod(S1_path) * np.prod(S2_path))
control_geo_avg(S1_path, S2_path) ==
    SqrtFx(MulFx(ProdTo(S1_path, ReqN - 1), ProdTo(S2_path, ReqN - 1)))

\* arithmetic_basket_mc.py lines 110-117: the control payoff of the path that
\* starts at draw `base`
BasketGeoPayoff(option_type, draws, base) ==
    Payoff(option_type,
           control_geo_avg([j \in 0..(ReqN - 1) |-> S1At(draws, base, j)],
                           [j \in 0..(ReqN - 1) |-> S2At(draws, base, j)]),
           ReqK)

\* np.mean and np.std (the population standard deviation) of a sequence
MeanFx(xs) == TDiv(SumSeq(xs), Len(xs))

StdFx(xs) ==
    SqrtFx(TDiv(SumSeq([i \in 1..Len(xs) |->
                          MulFx(xs[i] - MeanFx(xs), xs[i] - MeanFx(xs))]), Len(xs)))

\* lines 129-133: (price, stderr) of a vector of payoffs
PriceAndStderr(payoffs, discount) ==
    <<MulFx(MeanFx(payoffs), discount),
      DivFx(MulFx(StdFx(payoffs), discount), SqrtFx(Len(payoffs) * SC))>>

\* The draws arithmetic_basket_mc makes: 2n per path in the first loop; with
\* the control variate 2n more by geometric_basket (line 95) and 2n per
\* path in the second loop (lines 100-108).
BasketDraws(cv) ==
    IF cv = "geometric" THEN 2 * ReqN * NumSim + 2 * ReqN + 2 * ReqN * NumSim
    ELSE 2 * ReqN * NumSim

\* arithmetic_basket_mc.py lines 68-133 on the draws it makes. With the
\* control variate the result is given as the three things the adjustment
\* of lines 119-131 is a function of: the payoffs, the geometric payoffs
\* and the reference price.
arithmetic_basket_mc(option_type, cv, draws) ==
    LET payoffs == [i \in 1..NumSim |->
                       BasketArithPayoff(option_type, draws, 2 * ReqN * (i - 1) + 1)]
        geo_price == geometric_basket(option_type,
                         SubSeq(draws, 2 * ReqN * NumSim + 1, 2 * ReqN * NumSim + 2 * ReqN))
        geo_payoffs == [i \in 1..NumSim |->
                           BasketGeoPayoff(option_type, draws,
                               2 * ReqN * NumSim + 2 * ReqN + 2 * ReqN * (i - 1) + 1)]
    IN  IF cv = "geometric"
        THEN <<payoffs, geo_payoffs, geo_price>>
        ELSE PriceAndStderr(payoffs, ExpFx(-MulFx(ReqR, ReqT)))

\* arithmetic_asian_mc.py lines 31-43: the prices of path i (from 1) after
\* the initial one, Z[i, k] being draw n*(i-1) + k + 1
RECURSIVE AsianPathPrice(_, _, _)
AsianPathPrice(draws, i, k) ==
    IF k = 0 THEN ReqS
    ELSE MulFx(AsianPathPrice(draws, i, k - 1),
               ExpFx(MulFx(ReqR - TDiv(MulFx(ReqSigma, ReqSigma), 2), ReqT \div ReqN)
                     + MulFx(MulFx(ReqSigma, SqrtFx(ReqT \div ReqN)),
                             draws[ReqN * (i - 1) + k])))

\* arithmetic_asian_mc.py lines 45-78, 131-155 on the draws it makes; with
\* the control variate the result is, as above, the payoffs and the
\* geometric payoffs the adjustment is a function of.
arithmetic_asian_mc(option_type, cv, draws) ==
    LET discount == ExpFx(-MulFx(ReqR, ReqT))
        arith == [i \in 1..NumSim |->
                    MulFx(discount,
                          Payoff(option_type,
                                 TDiv(SumTo([k \in 0..(ReqN - 1) |->
                                                AsianPathPrice(draws, i, k + 1)], ReqN - 1),
                                      ReqN),
                                 ReqK))]
        geo == [i \in 1..NumSim |->
                  MulFx(discount,
                        Payoff(option_type,
                               ExpFx(TDiv(SumTo([k \in 0..(ReqN - 1) |->
                                                    LnFx(AsianPathPrice(draws, i, k + 1))],
                                                ReqN - 1), ReqN)),
                               ReqK))]
    IN  IF cv = "geometric" THEN <<arith, geo>> ELSE PriceAndStderr(arith, SC)

\* The seed a request sets before it draws, 0 when it sets none;
\* geometric_basket draws from the generator as it finds it.
SeedOf(req) ==
    IF req.entry = "arithmetic_basket_mc" THEN SeedBasket
    ELSE IF req.entry = "arithmetic_asian_mc" THEN SeedAsian
    ELSE 0

\* The number of values a request draws.
DrawsOf(req) ==
    IF req.entry = "arithmetic_basket_mc" THEN BasketDraws(req.cv)
    ELSE IF req.entry = "arithmetic_asian_mc" THEN ReqN * NumSim
    ELSE IF req.entry = "geometric_basket" THEN 2 * ReqN
    ELSE 0

\* What a request returns on the values it drew.
ResultOf(req, draws) ==
    IF req.entry = "arithmetic_basket_mc"
    THEN arithmetic_basket_mc(req.option_type, req.cv, draws)
    ELSE IF req.entry = "arithmetic_asian_mc"
    THEN arithmetic_asian_mc(req.option_type, req.cv, draws)
    ELSE IF req.entry = "geometric_basket"
    THEN geometric_basket(req.option_type, draws)
    ELSE black_scholes(ReqS, ReqK, ReqR, 0, ReqT, ReqSigma, req.option_type)

\* The generator once a request has seeded it (or not).
Seeded(g, req) == IF SeedOf(req) = 0 THEN g ELSE [seed |-> SeedOf(req), pos |-> 0]

\* The next k values of the generator g.
Stream(g, k) == [i \in 1..k |-> Normal(g.seed, g.pos + i - 1)]

\* After `import app` the generator is the one kiko_quasi_mc.py line 7 set.
RngInit ==
    /\ rng = [seed |-> SeedAsian, pos |-> 0]
    /\ rcalls = 0
    /\ rlast = <<>>
    /\ rfirst = [q \in Requests |-> <<>>]
    /\ th = <<>>

\* One pricing call, start to end, nothing running beside it.
PricingCall(req) ==
    /\ rcalls < MaxCalls
    /\ LET g == Seeded(rng, req)
           result == ResultOf(req, Stream(g, DrawsOf(req)))
       IN  /\ rng' = [g EXCEPT !.pos = g.pos + DrawsOf(req)]
           /\ rlast' = <<[sig |-> req, result |-> result]>>
           /\ rfirst' = IF rfirst[req] = <<>>
                        THEN [rfirst EXCEPT ![req] = <<result>>]
                        ELSE rfirst
    /\ rcalls' = rcalls + 1
    /\ UNCHANGED th
    /\ UNCHANGED rothers

CallBlackScholes ==
    \E req \in Requests : req.entry = "black_scholes" /\ PricingCall(req)

CallGeometricBasket ==
    \E req \in Requests : req.entry = "geometric_basket" /\ PricingCall(req)

CallArithmeticBasket ==
    \E req \in Requests : req.entry = "arithmetic_basket_mc" /\ PricingCall(req)

CallArithmeticAsian ==
    \E req \in Requests : req.entry = "arithmetic_asian_mc" /\ PricingCall(req)

RngNext ==
    CallBlackScholes \/ CallGeometricBasket \/ CallArithmeticBasket
    \/ CallArithmeticAsian

\* Two requests served by two threads of the one process. A thread's steps
\* are its calls of np.random: seed, then normal once per value (once for
\* the whole matrix in arithmetic_asian_mc.py line 36), each of them atomic
\* under the generator's lock, the other thread free to run in between.
Threads == {1, 2}

ConcRequests ==
    {q \in Requests :
        /\ q.entry \in {"arithmetic_basket_mc", "arithmetic_asian_mc"}
        /\ q.cv = "none"}

ConcInit ==
    /\ rng = [seed |-> SeedAsian, pos |-> 0]
    /\ rcalls = 0 /\ rlast = <<>> /\ rfirst = <<>>
    /\ \E q1 \in ConcRequests, q2 \in ConcRequests :
           th = [t \in Threads |->
                   [req |-> IF t = 1 THEN q1 ELSE q2,
                    pc |-> "seed", draws |-> <<>>, result |-> <<>>]]

\* np.random.seed(...): arithmetic_basket_mc.py line 66,
\* arithmetic_asian_mc.py line 30
ThreadSeed(t) ==
    /\ th[t].pc = "seed"
    /\ rng' = Seeded(rng, th[t].req)
    /\ th' = [th EXCEPT ![t].pc = "draw"]
    /\ UNCHANGED <<rcalls, rlast, rfirst>>
    /\ UNCHANGED rothers

\* The values one call of np.random.normal returns.
DrawSize(req) == IF req.entry = "arithmetic_asian_mc" THEN ReqN * NumSim ELSE 1

\* np.random.normal(...): the next values of the generator as it stands
ThreadDraw(t) ==
    /\ th[t].pc = "draw"
    /\ Len(th[t].draws) < DrawsOf(th[t].req)
    /\ th' = [th EXCEPT ![t].draws = @ \o Stream(rng, DrawSize(th[t].req))]
    /\ rng' = [rng EXCEPT !.pos = @ + DrawSize(th[t].req)]
    /\ UNCHANGED <<rcalls, rlast, rfirst>>
    /\ UNCHANGED rothers

\* All values drawn: the request computes and returns its result.
ThreadReturn(t) ==
    /\ th[t].pc = "draw"
    /\ Len(th[t].draws) = DrawsOf(th[t].req)
    /\ th' = [th EXCEPT ![t].pc = "done",
                        ![t].result = <<ResultOf(th[t].req, th[t].draws)>>]
    /\ UNCHANGED <<rng, rcalls, rlast, rfirst>>
    /\ UNCHANGED rothers

Seed == \E t \in Threads : ThreadSeed(t)

Draw == \E t \in Threads : ThreadDraw(t)

Return == \E t \in Threads : ThreadReturn(t)

ConcNext == Seed \/ Draw \/ Return

\* The random source is not in use.
RngIdle ==
    /\ rng = [seed |-> 0, pos |-> 0]
    /\ rcalls = 0 /\ rlast = <<>> /\ rfirst = <<>> /\ th = <<>>

\* ------------------------------------------------------------------------
\* The control variate (src/models/arithmetic_basket_mc.py lines 92-133;
\* arithmetic_asian_mc.py lines 139-157 compute the same with the payoffs
\* discounted beforehand). Payoffs are integers and every quotient is kept
\* exact as a numerator over a denominator.
\* ------------------------------------------------------------------------

\* Bound: the paths of a batch.
MaxBatch == 3

\* The payoffs and reference prices of the model.
PayoffGrid == {0, 1, 3}

Dot(xs, ys) == SumSeq([i \in 1..Len(xs) |-> xs[i] * ys[i]])

\* np.cov(x, y)[0, 1] = CovNum(x, y) / (N * (N - 1))
CovNum(xs, ys) == Len(xs) * Dot(xs, ys) - SumSeq(xs) * SumSeq(ys)

\* np.var(x) = VarNum(x) / N^2
VarNum(xs) == Len(xs) * Dot(xs, xs) - SumSeq(xs) * SumSeq(xs)

NaN == [nan |-> TRUE, num |-> 0, den |-> 1]

\* lines 120-122: beta = cov / var_geo in floating point. np.cov of a single
\* observation is nan; with var_geo = 0 the covariance is 0 as well and
\* 0.0 / 0.0 is nan. No exception is raised.
Coefficient(xs, ys) ==
    IF Len(xs) = 1 \/ VarNum(ys) = 0 THEN NaN
    ELSE [nan |-> FALSE, num |-> CovNum(xs, ys) * Len(xs),
          den |-> (Len(xs) - 1) * VarNum(ys)]

\* payoffs + beta * (geo_payoffs - geo_price): the adjustment with the sign
\* turned.
AdjustedPlus(x, y, mu, b) == b.den * x + b.num * (y - mu)

\* line 125: payoffs - beta * (geo_payoffs - geo_price), times beta.den
Adjusted(x, y, mu, b) == b.den * x - b.num * (y - mu)

\* arithmetic_asian_mc.py line 149: arithmetic_payoffs + theta *
\* (geometric_price - geometric_payoffs), times theta.den
AsianAdjusted(x, y, mu, b) == b.den * x + b.num * (mu - y)

\* lines 129-131: np.mean(v) = sum / (N * den), np.std(v)^2 = ss / (N * den)^2
\* of the values v[i] = nums[i] / den; the discount factor and the division
\* by sqrt(N) are the same in both modes.
Estimate(nums, den) ==
    [nan |-> FALSE, sum |-> SumSeq(nums), ss |-> VarNum(nums), den |-> den]

CvInit ==
    /\ \E N \in 1..MaxBatch :
           /\ cv_payoffs \in [1..N -> PayoffGrid]
           /\ cv_geo_payoffs \in [1..N -> PayoffGrid]
    /\ cv_geo_price \in PayoffGrid
    /\ cv_mode \in {"none", "geometric"}
    /\ cvpc = "start"
    /\ beta = NaN
    /\ adjusted_payoffs = [nan |-> FALSE, nums |-> <<>>, den |-> 1]
    /\ cvout = [nan |-> FALSE, sum |-> 0, ss |-> 0, den |-> 1]
    /\ cvwarnings = {}

\* lines 119-122
CvCoefficient ==
    /\ cvpc = "start"
    /\ cv_mode = "geometric"
    /\ beta' = Coefficient(cv_payoffs, cv_geo_payoffs)
    /\ cvwarnings' = IF Coefficient(cv_payoffs, cv_geo_payoffs).nan
                     THEN cvwarnings \cup {"RuntimeWarning"}
                     ELSE cvwarnings
    /\ cvpc' = "coefficient"
    /\ UNCHANGED <<cv_payoffs, cv_geo_payoffs, cv_geo_price, cv_mode,
                   adjusted_payoffs, cvout>>
    /\ UNCHANGED cothers

\* lines 124-125
CvAdjust ==
    /\ cvpc = "coefficient"
    /\ adjusted_payoffs' =
           IF beta.nan THEN [nan |-> TRUE, nums |-> <<>>, den |-> 1]
           ELSE [nan |-> FALSE,
                 nums |-> [i \in 1..Len(cv_payoffs) |->
                              Adjusted(cv_payoffs[i], cv_geo_payoffs[i],
                                       cv_geo_price, beta)],
                 den |-> beta.den]
    /\ cvpc' = "adjusted"
    /\ UNCHANGED <<cv_payoffs, cv_geo_payoffs, cv_geo_price, cv_mode,
                   beta, cvout, cvwarnings>>
    /\ UNCHANGED cothers

\* lines 126-127: adjusted_payoffs = payoffs
CvNone ==
    /\ cvpc = "start"
    /\ cv_mode = "none"
    /\ adjusted_payoffs' = [nan |-> FALSE, nums |-> cv_payoffs, den |-> 1]
    /\ cvpc' = "adjusted"
    /\ UNCHANGED <<cv_payoffs, cv_geo_payoffs, cv_geo_price, cv_mode,
                   beta, cvout, cvwarnings>>
    /\ UNCHANGED cothers

\* lines 129-133
CvReturn ==
    /\ cvpc = "adjusted"
    /\ cvout' = IF adjusted_payoffs.nan
                THEN [nan |-> TRUE, sum |-> 0, ss |-> 0, den |-> 1]
                ELSE Estimate(adjusted_payoffs.nums, adjusted_payoffs.den)
    /\ cvpc' = "done"
    /\ UNCHANGED <<cv_payoffs, cv_geo_payoffs, cv_geo_price, cv_mode,
                   beta, adjusted_payoffs, cvwarnings>>
    /\ UNCHANGED cothers

CvNext == CvCoefficient \/ CvAdjust \/ CvNone \/ CvReturn

\* No batch is being adjusted.
CvIdle ==
    /\ cv_payoffs = <<>> /\ cv_geo_payoffs = <<>> /\ cv_geo_price = 0
    /\ cv_mode = "none" /\ cvpc = "idle" /\ beta = NaN
    /\ adjusted_payoffs = <<>> /\ cvout = <<>> /\ cvwarnings = {}

\* ------------------------------------------------------------------------
\* Argument checks and the work that follows them, in every entry point of
\* src/models
\* ------------------------------------------------------------------------

\* arithmetic_basket_mc.py lines 36-60, without the check of n.
BasketValidateNoN(S1, S2, sigma1, sigma2, r, T, K, rho, n, option_type, num_simulations, control_variate) ==
    IF S1 <= 0 THEN "Spot price S1(0) must be positive."
    ELSE IF S2 <= 0 THEN "Spot price S2(0) must be positive."
    ELSE IF sigma1 <= 0 THEN "Volatility sigma1 must be positive."
    ELSE IF sigma2 <= 0 THEN "Volatility sigma2 must be positive."
    ELSE IF r < 0 THEN "Risk-free rate r must be non-negative."
    ELSE IF T <= 0 THEN "Time to maturity T must be positive."
    ELSE IF K <= 0 THEN "Strike price K must be positive."
    ELSE IF ~(-SC <= rho /\ rho <= SC) THEN "Correlation rho must be between -1 and 1."
    ELSE IF num_simulations <= 0 THEN "Number of simulations must be positive."
    ELSE IF control_variate \notin {"none", "geometric"}
         THEN "Control variate method must be either 'none' or 'geometric'."
    ELSE IF option_type \notin {"call", "put"}
         THEN "Option type must be either 'call' or 'put'."
    ELSE "ok"

\* arithmetic_basket_mc.py lines 36-60
BasketValidate(S1, S2, sigma1, sigma2, r, T, K, rho, n, option_type, num_simulations, control_variate) ==
    IF S1 <= 0 THEN "Spot price S1(0) must be positive."
    ELSE IF S2 <= 0 THEN "Spot price S2(0) must be positive."
    ELSE IF sigma1 <= 0 THEN "Volatility sigma1 must be positive."
    ELSE IF sigma2 <= 0 THEN "Volatility sigma2 must be positive."
    ELSE IF r < 0 THEN "Risk-free rate r must be non-negative."
    ELSE IF T <= 0 THEN "Time to maturity T must be positive."
    ELSE IF K <= 0 THEN "Strike price K must be positive."
    ELSE IF ~(-SC <= rho /\ rho <= SC) THEN "Correlation rho must be between -1 and 1."
    ELSE IF num_simulations <= 0 THEN "Number of simulations must be positive."
    ELSE IF control_variate \notin {"none", "geometric"}
         THEN "Control variate method must be either 'none' or 'geometric'."
    ELSE IF option_type \notin {"call", "put"}
         THEN "Option type must be either 'call' or 'put'."
    ELSE IF n <= 1 THEN "Number of observations n must be greater than 1."
    ELSE "ok"

\* geometric_basket.py lines 31-45; r is not checked
GeoBasketValidate(S1, S2, sigma1, sigma2, r, T, K, rho, n, option_type) ==
    IF S1 <= 0 \/ S2 <= 0 THEN "Spot prices must be positive."
    ELSE IF sigma1 <= 0 \/ sigma2 <= 0 THEN "Volatilities must be positive."
    ELSE IF T <= 0 THEN "Time to maturity must be positive."
    ELSE IF ~(-SC <= rho /\ rho <= SC) THEN "Correlation must be between -1 and 1."
    ELSE IF K <= 0 THEN "Strike price must be positive."
    ELSE IF n <= 1 THEN "Number of observations must be greater than 1."
    ELSE IF option_type \notin {"call", "put"}
         THEN "Option type must be either 'call' or 'put'."
    ELSE "ok"

\* geometric_asian.py lines 30-44; arithmetic_asian_mc.py lines 185-199
\* (geometric_asian_exact) are the same checks
GeoAsianValidate(S0, sigma, r, T, K, n, option_type) ==
    IF S0 <= 0 THEN "Spot price S(0) must be positive."
    ELSE IF K <= 0 THEN "Strike price K must be positive."
    ELSE IF sigma <= 0 THEN "Volatility sigma must be positive."
    ELSE IF r < 0 \/ r > SC THEN "Risk-free rate r must be between 0 and 1."
    ELSE IF T <= 0 THEN "Time to maturity T must be positive."
    ELSE IF n <= 0 THEN "Number of observation times n must be positive."
    ELSE IF option_type \notin {"call", "put"}
         THEN "Option type must be either 'call' or 'put'."
    ELSE "ok"

\* arithmetic_asian_mc.py lines 113-131
AsianValidate(S0, sigma, r, T, K, n, option_type, num_simulations, control_variate) ==
    IF S0 <= 0 THEN "Spot price S(0) must be positive."
    ELSE IF K <= 0 THEN "Strike price K must be positive."
    ELSE IF sigma <= 0 THEN "Volatility sigma must be positive."
    ELSE IF r < 0 \/ r > SC THEN "Risk-free rate r must be between 0 and 1."
    ELSE IF T <= 0 THEN "Time to maturity T must be positive."
    ELSE IF n <= 0 THEN "Number of observation times n must be positive."
    ELSE IF num_simulations <= 0 THEN "Number of simulations must be positive."
    ELSE IF control_variate \notin {"none", "geometric"}
         THEN "Control variate method must be either 'none' or 'geometric'."
    ELSE IF option_type \notin {"call", "put"}
         THEN "Option type must be either 'call' or 'put'."
    ELSE "ok"

\* implied_volatility.py lines 32-46
IvValidate(S, K, r, q, T, market_price, option_type) ==
    IF S <= 0 THEN "Spot price S must be positive."
    ELSE IF K <= 0 THEN "Strike price K must be positive."
    ELSE IF r < 0 THEN "Risk-free rate r must be non-negative."
    ELSE IF q < 0 THEN "Repo rate q must be non-negative."
    ELSE IF T <= 0 THEN "Time to maturity T must be positive."
    ELSE IF market_price < 0 THEN "Market price must be non-negative."
    ELSE IF option_type \notin {"call", "put"}
         THEN "Option type must be either 'call' or 'put'"
    ELSE "ok"

\* The lower end of the bracket, 1e-6, below the fixed-point scale: the
\* smallest positive volatility.
BracketLow == 1

EntryPoints ==
    {"black_scholes", "implied_volatility", "geometric_asian", "geometric_basket",
     "arithmetic_asian_mc", "arithmetic_basket_mc", "american_binomial",
     "kiko_quasi_mc"}

\* Arguments in their domains.
BaseArgs ==
    [S |-> SC, S2 |-> SC, K |-> SC, r |-> ReqR, q |-> 0, T |-> SC,
     sigma |-> ReqSigma, sigma2 |-> ReqSigma, rho |-> ReqRho, n |-> 2,
     num_simulations |-> 1, L |-> SC \div 2, U |-> 2 * SC, R |-> 0,
     option_type |-> "call", control_variate |-> "none",
     market_price |-> SC \div 10, calculate_delta |-> FALSE]

\* The values each argument takes: in its domain, and outside it.
SpotValues == {0, SC}
RateValues == {-1, ReqR, 2 * SC}
RepoValues == {-1, 0}
TimeValues == {0, SC}
VolValues == {0, ReqSigma}
RhoValues == {-2 * SC, ReqRho}
CountValues == {0, 1, 2}
SimValues == {0, 1}
UpperValues == {SC \div 2, 2 * SC}
RebateValues == {-1, 0}
TypeValues == {"call", "straddle"}
ControlValues == {"none", "geometric", "antithetic"}
PremiumValues == {-1, SC \div 10, 2 * SC}

\* The arguments an entry point takes vary, the others stay as in BaseArgs.
ArgsOf(entry) ==
    LET common == {[BaseArgs EXCEPT !.S = s, !.K = k, !.r = r, !.T = t,
                                    !.option_type = o] :
                       s \in SpotValues, k \in SpotValues, r \in RateValues,
                       t \in TimeValues, o \in TypeValues}
        withVol == {[a EXCEPT !.sigma = v] : a \in common, v \in VolValues}
        withN == {[a EXCEPT !.n = n] : a \in withVol, n \in CountValues}
        twoAssets == {[a EXCEPT !.S2 = s, !.sigma2 = v, !.rho = c] :
                         a \in withN, s \in SpotValues, v \in VolValues,
                         c \in RhoValues}
    IN  CASE entry = "black_scholes" ->
                {[a EXCEPT !.q = q] : a \in withVol, q \in RepoValues}
          [] entry = "implied_volatility" ->
                {[a EXCEPT !.q = q, !.market_price = m] :
                    a \in common, q \in RepoValues, m \in PremiumValues}
          [] entry = "geometric_asian" -> withN
          [] entry = "american_binomial" -> withN
          [] entry = "geometric_basket" -> twoAssets
          [] entry = "arithmetic_asian_mc" ->
                {[a EXCEPT !.num_simulations = m, !.control_variate = c] :
                    a \in withN, m \in SimValues, c \in ControlValues}
          [] entry = "arithmetic_basket_mc" ->
                {[a EXCEPT !.num_simulations = m, !.control_variate = c] :
                    a \in twoAssets, m \in SimValues, c \in ControlValues}
          [] entry = "kiko_quasi_mc" ->
                {[a EXCEPT !.U = u, !.R = b, !.calculate_delta = g] :
                    a \in {x \in withN : x.option_type = "call"},
                    u \in UpperValues, b \in RebateValues, g \in BOOLEAN}

\* The checks at the head of an entry point.
EntryValidate(entry, a) ==
    CASE entry = "black_scholes" ->
            BsValidate(a.S, a.K, a.r, a.q, a.T, a.sigma, a.option_type)
      [] entry = "implied_volatility" ->
            IvValidate(a.S, a.K, a.r, a.q, a.T, a.market_price, a.option_type)
      [] entry = "geometric_asian" ->
            GeoAsianValidate(a.S, a.sigma, a.r, a.T, a.K, a.n, a.option_type)
      [] entry = "american_binomial" ->
            AmValidate(a.S, a.K, a.r, a.T, a.sigma, a.n, a.option_type)
      [] entry = "geometric_basket" ->
            GeoBasketValidate(a.S, a.S2, a.sigma, a.sigma2, a.r, a.T, a.K, a.rho,
                              a.n, a.option_type)
      [] entry = "arithmetic_asian_mc" ->
            AsianValidate(a.S, a.sigma, a.r, a.T, a.K, a.n, a.option_type,
                          a.num_simulations, a.control_variate)
      [] entry = "arithmetic_basket_mc" ->
            BasketValidate(a.S, a.S2, a.sigma, a.sigma2, a.r, a.T, a.K, a.rho,
                           a.n, a.option_type, a.num_simulations,
                           a.control_variate)
      [] entry = "kiko_quasi_mc" ->
            KikoValidate(a.S, a.K, a.r, a.T, a.sigma, a.L, a.U, a.R, a.n)

\* The checks of the function an entry point calls once its work is under
\* way: geometric_basket (arithmetic_basket_mc.py line 95),
\* geometric_asian_exact (arithmetic_asian_mc.py line 142), black_scholes at
\* the lower end of the bracket (implied_volatility.py lines 49-54).
NestedValidate(entry, a) ==
    CASE entry = "arithmetic_basket_mc" ->
            GeoBasketValidate(a.S, a.S2, a.sigma, a.sigma2, a.r, a.T, a.K, a.rho,
                              a.n, a.option_type)
      [] entry = "arithmetic_asian_mc" ->
            GeoAsianValidate(a.S, a.sigma, a.r, a.T, a.K, a.n, a.option_type)
      [] entry = "implied_volatility" ->
            BsValidate(a.S, a.K, a.r, a.q, a.T, BracketLow, a.option_type)

\* What the called function does once its checks pass.
NestedWork(entry) == IF entry = "arithmetic_basket_mc" THEN "draw" ELSE "formula"

\* Nothing rendered yet.
NoView == [values |-> {}, error |-> ""]

\* What a call returns: kiko_quasi_mc.py lines 113-114 and 134, the two
\* Monte Carlo pricers' (price, stderr), a single number otherwise.
ResultFields(entry, a) ==
    IF entry = "kiko_quasi_mc"
    THEN {"price", "stderr", "conf_interval"}
         \cup (IF a.calculate_delta THEN {"delta"} ELSE {})
    ELSE IF entry \in {"arithmetic_asian_mc", "arithmetic_basket_mc"}
    THEN {"price", "stderr"}
    ELSE IF entry = "implied_volatility" THEN {"implied_vol"}
    ELSE {"price"}

\* What format_result shows of a result (src/app.py lines 574-593):
\* calculate_arithmetic_asian adds the confidence interval (line 695),
\* calculate_american the European price and the premium (lines 795-801).
Rendered(entry, out) ==
    IF entry = "arithmetic_asian_mc" THEN out \cup {"conf_interval"}
    ELSE IF entry = "american_binomial"
    THEN out \cup {"european_price", "early_exercise_premium"}
    ELSE out

\* The except branch with the values obtained so far shown beside the
\* message.
ErrorViewWithValues(e, partial) == [values |-> partial, error |-> e]

\* The except branch of every callback (e.g. src/app.py lines 701-705): the
\* message, and nothing of what was computed.
ErrorView(e, partial) == [values |-> {}, error |-> e]

VInit ==
    /\ ventry \in EntryPoints
    /\ vargs \in ArgsOf(ventry)
    /\ vcaller \in {"direct", "callback"}
    /\ vpc = IF vcaller = "callback" THEN "click" ELSE "start"
    /\ vwork = {}
    /\ verr = ""
    /\ vout = {}
    /\ vview = NoView

\* The checks at the head of the entry point: the first that fails raises.
VValidate ==
    /\ vpc = "start"
    /\ IF EntryValidate(ventry, vargs) = "ok"
       THEN vpc' = "work" /\ verr' = verr
       ELSE vpc' = "raised" /\ verr' = EntryValidate(ventry, vargs)
    /\ UNCHANGED <<ventry, vargs, vwork, vcaller, vout, vview>>
    /\ UNCHANGED vothers

\* np.random.seed: arithmetic_basket_mc.py line 66, arithmetic_asian_mc.py
\* line 30
VSeed ==
    /\ vpc = "work"
    /\ ventry \in {"arithmetic_basket_mc", "arithmetic_asian_mc"}
    /\ vwork' = vwork \cup {"seed"}
    /\ vpc' = "draw"
    /\ UNCHANGED <<ventry, vargs, verr, vcaller, vout, vview>>
    /\ UNCHANGED vothers

\* The paths are drawn: arithmetic_basket_mc.py lines 71-90,
\* arithmetic_asian_mc.py lines 36-45, geometric_basket.py lines 50-58,
\* kiko_quasi_mc.py lines 97-101
VDraw ==
    /\ \/ vpc = "draw"
       \/ vpc = "work" /\ ventry \in {"geometric_basket", "kiko_quasi_mc"}
    /\ vwork' = vwork \cup {"draw"}
    /\ vpc' = IF /\ ventry \in {"arithmetic_basket_mc", "arithmetic_asian_mc"}
                 /\ vargs.control_variate = "geometric"
              THEN "nested" ELSE "return"
    /\ UNCHANGED <<ventry, vargs, verr, vcaller, vout, vview>>
    /\ UNCHANGED vothers

\* american_binomial.py lines 41-67
VLattice ==
    /\ vpc = "work"
    /\ ventry = "american_binomial"
    /\ vwork' = vwork \cup {"lattice"}
    /\ vpc' = "return"
    /\ UNCHANGED <<ventry, vargs, verr, vcaller, vout, vview>>
    /\ UNCHANGED vothers

\* black_scholes.py lines 45-59, geometric_asian.py lines 46-60
VFormula ==
    /\ vpc = "work"
    /\ ventry \in {"black_scholes", "geometric_asian"}
    /\ vwork' = vwork \cup {"formula"}
    /\ vpc' = "return"
    /\ UNCHANGED <<ventry, vargs, verr, vcaller, vout, vview>>
    /\ UNCHANGED vothers

\* implied_volatility.py line 54: brentq calls the pricing function at the
\* lower end of the bracket
VRootFind ==
    /\ vpc = "work"
    /\ ventry = "implied_volatility"
    /\ vpc' = "nested"
    /\ UNCHANGED <<ventry, vargs, vwork, verr, vcaller, vout, vview>>
    /\ UNCHANGED vothers

\* The called function checks its arguments, then does its work. An error
\* of black_scholes leaves implied_volatility as a ValueError with the
\* message wrapped (lines 55-56).
VNested ==
    /\ vpc = "nested"
    /\ IF NestedValidate(ventry, vargs) = "ok"
       THEN /\ vwork' = vwork \cup {NestedWork(ventry)}
            /\ vpc' = "return"
            /\ verr' = verr
       ELSE /\ vwork' = vwork
            /\ vpc' = "raised"
            /\ verr' = NestedValidate(ventry, vargs)
    /\ UNCHANGED <<ventry, vargs, vcaller, vout, vview>>
    /\ UNCHANGED vothers

\* The end of the call. A premium no volatility of the bracket attains (one
\* at or above both spot and strike) makes brentq fail, and
\* implied_volatility raises for it (lines 55-56).
VReturn ==
    /\ vpc = "return"
    /\ IF /\ ventry = "implied_volatility"
          /\ vargs.market_price >= Max(vargs.S, vargs.K)
       THEN /\ vpc' = "failed"
            /\ verr' = "Could not calculate implied volatility"
            /\ vout' = vout
       ELSE /\ vpc' = "done"
            /\ verr' = verr
            /\ vout' = ResultFields(ventry, vargs)
    /\ UNCHANGED <<ventry, vargs, vwork, vcaller, vview>>
    /\ UNCHANGED vothers

\* The checks a callback of src/app.py makes itself before it calls:
\* calculate_geometric_asian lines 662-664, calculate_geometric_basket lines
\* 726-728, calculate_kiko lines 828-846.
CallbackCheck(entry, a) ==
    IF entry \in {"geometric_asian", "geometric_basket"} /\ (a.r < 0 \/ a.r > SC)
    THEN "Error: Risk-free rate (r) must be between 0 and 1"
    ELSE IF entry # "kiko_quasi_mc" THEN "ok"
    ELSE IF a.r < 0 \/ a.r > SC
    THEN "Error: Risk-free rate (r) must be between 0 and 1"
    ELSE IF a.L >= a.U
    THEN "Error: Lower barrier (L) must be less than upper barrier (U)"
    ELSE IF a.S <= 0 \/ a.K <= 0 \/ a.T <= 0 \/ a.sigma <= 0 \/ a.n <= 0
    THEN "Error: Spot price, strike price, time to maturity, volatility, and number of observations must be positive"
    ELSE IF a.R < 0 THEN "Error: Rebate must be non-negative"
    ELSE "ok"

\* The number of positional arguments each callback of src/app.py passes to
\* its entry point (lines 612, 637, 667, 694, 731, 760, 794, 850).
PassedArgs(entry) ==
    CASE entry = "black_scholes" -> 7
      [] entry = "implied_volatility" -> 7
      [] entry = "geometric_asian" -> 7
      [] entry = "arithmetic_asian_mc" -> 9
      [] entry = "geometric_basket" -> 9
      [] entry = "arithmetic_basket_mc" -> 11
      [] entry = "american_binomial" -> 7
      [] entry = "kiko_quasi_mc" -> 10

\* The number of parameters of each entry point's signature; none has a
\* default but calculate_delta of kiko_quasi_mc, which the callback passes.
RequiredArgs(entry) ==
    CASE entry = "black_scholes" -> 7
      [] entry = "implied_volatility" -> 7
      [] entry = "geometric_asian" -> 7
      [] entry = "arithmetic_asian_mc" -> 9
      [] entry = "geometric_basket" -> 10
      [] entry = "arithmetic_basket_mc" -> 12
      [] entry = "american_binomial" -> 7
      [] entry = "kiko_quasi_mc" -> 10

\* The number of values each callback unpacks from what its entry point
\* returns: two at line 694, three at line 760, three or four at lines
\* 852-866, the single returned value elsewhere.
UnpackedValues(entry, a) ==
    CASE entry = "arithmetic_asian_mc" -> 2
      [] entry = "arithmetic_basket_mc" -> 3
      [] entry = "kiko_quasi_mc" -> IF a.calculate_delta THEN 4 ELSE 3
      [] OTHER -> 1

\* calculate_geometric_basket (line 731) and calculate_arithmetic_basket
\* (line 760) call with one argument fewer than the function takes, which
\* raises TypeError before the function is entered.
CallbackCallFails(entry) == PassedArgs(entry) # RequiredArgs(entry)

\* The callback, clicked: its own checks, then the call.
VCallback ==
    /\ vpc = "click"
    /\ IF CallbackCheck(ventry, vargs) # "ok"
       THEN vpc' = "shown" /\ vview' = ErrorView(CallbackCheck(ventry, vargs), {})
       ELSE IF CallbackCallFails(ventry)
       THEN vpc' = "shown" /\ vview' = ErrorView("missing 1 required positional argument", {})
       ELSE vpc' = "start" /\ vview' = vview
    /\ UNCHANGED <<ventry, vargs, vwork, verr, vcaller, vout>>
    /\ UNCHANGED vothers

\* The entry point has returned: the callback unpacks what it returned and
\* formats the result. calculate_american first prices the European option
\* with black_scholes (line 795), which raises for a rate above 1.
VRender ==
    /\ vpc = "done"
    /\ vcaller = "callback"
    /\ LET bs == BsValidate(vargs.S, vargs.K, vargs.r, 0, vargs.T, vargs.sigma,
                            vargs.option_type)
       IN  IF UnpackedValues(ventry, vargs) # Cardinality(vout)
           THEN vview' = ErrorView("not enough values to unpack", vout)
           ELSE IF ventry = "american_binomial" /\ bs # "ok"
           THEN vview' = ErrorView(bs, vout)
           ELSE vview' = [values |-> Rendered(ventry, vout), error |-> ""]
    /\ vpc' = "shown"
    /\ UNCHANGED <<ventry, vargs, vwork, verr, vcaller, vout>>
    /\ UNCHANGED vothers

\* The entry point has raised: the callback's except branch.
VRenderError ==
    /\ vpc \in {"raised", "failed"}
    /\ vcaller = "callback"
    /\ vview' = ErrorView(verr, vout)
    /\ vpc' = "shown"
    /\ UNCHANGED <<ventry, vargs, vwork, verr, vcaller, vout>>
    /\ UNCHANGED vothers

VNext ==
    VValidate \/ VSeed \/ VDraw \/ VLattice \/ VFormula \/ VRootFind
    \/ VNested \/ VReturn \/ VCallback \/ VRender \/ VRenderError

\* No call is being followed.
VIdle ==
    /\ ventry = "" /\ vargs = <<>> /\ vpc = "idle" /\ vwork = {} /\ verr = ""
    /\ vcaller = "" /\ vout = {} /\ vview = NoView

\* ------------------------------------------------------------------------
\* Implied volatility (src/models/implied_volatility.py)
\* ------------------------------------------------------------------------

\* The upper end of the bracket, 5 (line 54).
BracketHigh == 5 * SC

\* The kind of every error the models raise: ValueError.
ErrorKind == "ValueError"

NoError == [kind |-> "", msg |-> ""]

\* lines 49-50 and the function handed to brentq (line 54)
option_price(S, K, r, q, T, market_price, option_type, sigma) ==
    black_scholes(S, K, r, q, T, sigma, option_type) - market_price

\* The handler turned into one that answers with the end of the bracket.
OnRootFinderErrorReturnBound(e) ==
    [pc |-> "returned", out |-> <<BracketHigh>>, err |-> NoError]

\* lines 55-56: whatever brentq or the pricing function raises leaves as a
\* ValueError with the message wrapped
OnRootFinderError(e) ==
    [pc |-> "failed", out |-> <<>>,
     err |-> [kind |-> ErrorKind, msg |-> "Could not calculate implied volatility"]]

IvInit ==
    /\ ivS \in {(8 * SC) \div 10, SC, (12 * SC) \div 10}
    /\ ivK = SC
    /\ ivr \in {-1, 0, ReqR, 2 * SC}
    /\ ivq = 0
    /\ ivT = SC
    /\ ivmarket \in {-1, 0, SC \div 100, SC \div 10, (3 * SC) \div 10,
                     (9 * SC) \div 10, 2 * SC}
    /\ ivtype \in {"call", "put"}
    /\ ivpc = "start"
    /\ iva = 0 /\ ivb = 0 /\ ivfa = 0 /\ ivfb = 0 /\ ivfirst = <<>>
    /\ ivattempts = 0
    /\ ivout = <<>>
    /\ iverr = NoError

\* lines 32-46
IvCall ==
    /\ ivpc = "start"
    /\ LET v == IvValidate(ivS, ivK, ivr, ivq, ivT, ivmarket, ivtype)
       IN  IF v = "ok"
           THEN ivpc' = "bracket" /\ iverr' = iverr
           ELSE ivpc' = "raised" /\ iverr' = [kind |-> ErrorKind, msg |-> v]
    /\ UNCHANGED <<ivargs, iva, ivb, ivfa, ivfb, ivfirst, ivattempts, ivout>>
    /\ UNCHANGED ivothers

\* line 54: brentq evaluates the function at both ends of the bracket and
\* raises unless the signs differ; an end where the function is zero is the
\* root. black_scholes checks its arguments at the first evaluation.
IvBracket ==
    /\ ivpc = "bracket"
    /\ ivattempts' = ivattempts + 1
    /\ LET fa == option_price(ivS, ivK, ivr, ivq, ivT, ivmarket, ivtype, BracketLow)
           fb == option_price(ivS, ivK, ivr, ivq, ivT, ivmarket, ivtype, BracketHigh)
           v == BsValidate(ivS, ivK, ivr, ivq, ivT, BracketLow, ivtype)
           fail == OnRootFinderError(v)
       IN  IF v # "ok"
           THEN /\ ivpc' = fail.pc /\ ivout' = fail.out /\ iverr' = fail.err
                /\ UNCHANGED <<iva, ivb, ivfa, ivfb, ivfirst>>
           ELSE /\ iva' = BracketLow /\ ivb' = BracketHigh
                /\ ivfa' = fa /\ ivfb' = fb /\ ivfirst' = <<fa, fb>>
                /\ IF (fa > 0 /\ fb > 0) \/ (fa < 0 /\ fb < 0)
                   THEN ivpc' = fail.pc /\ ivout' = fail.out /\ iverr' = fail.err
                   ELSE IF fa = 0
                   THEN ivpc' = "returned" /\ ivout' = <<BracketLow>> /\ iverr' = iverr
                   ELSE IF fb = 0
                   THEN ivpc' = "returned" /\ ivout' = <<BracketHigh>> /\ iverr' = iverr
                   ELSE ivpc' = "iterate" /\ ivout' = ivout /\ iverr' = iverr
    /\ UNCHANGED ivargs
    /\ UNCHANGED ivothers

\* One step of the root-finder: a point inside the bracket is evaluated and
\* replaces the end whose sign it shares; the search ends at a zero or when
\* the bracket is one unit wide.
IvIterate ==
    /\ ivpc = "iterate"
    /\ LET mid == (iva + ivb) \div 2
           fm == option_price(ivS, ivK, ivr, ivq, ivT, ivmarket, ivtype, mid)
       IN  IF ivb - iva <= 1
           THEN /\ ivpc' = "returned" /\ ivout' = <<ivb>>
                /\ UNCHANGED <<iva, ivb, ivfa, ivfb>>
           ELSE IF fm = 0
           THEN /\ ivpc' = "returned" /\ ivout' = <<mid>>
                /\ UNCHANGED <<iva, ivb, ivfa, ivfb>>
           ELSE IF (fm > 0) = (ivfa > 0)
           THEN /\ iva' = mid /\ ivfa' = fm
                /\ UNCHANGED <<ivb, ivfb, ivpc, ivout>>
           ELSE /\ ivb' = mid /\ ivfb' = fm
                /\ UNCHANGED <<iva, ivfa, ivpc, ivout>>
    /\ UNCHANGED <<ivargs, ivfirst, ivattempts, iverr>>
    /\ UNCHANGED ivothers

IvNext == IvCall \/ IvBracket \/ IvIterate

\* No implied volatility is being computed.
IvIdle ==
    /\ ivS = 0 /\ ivK = 0 /\ ivr = 0 /\ ivq = 0 /\ ivT = 0 /\ ivmarket = 0
    /\ ivtype = "" /\ ivpc = "idle" /\ iva = 0 /\ ivb = 0 /\ ivfa = 0 /\ ivfb = 0
    /\ ivfirst = <<>> /\ ivattempts = 0 /\ ivout = <<>> /\ iverr = NoError

\* ---------------------------------------------------------------------
\* kiko_quasi_mc: price, standard error, confidence interval and delta
\* (src/models/kiko_quasi_mc.py lines 94-134)
\* ---------------------------------------------------------------------

\* The seeds of the three Sobol generators: lines 97, 120 and 126.
SobolSeedBase == 5
SobolSeedUp == 6
SobolSeedDown == 7

\* 1.96
Z95 == (196 * SC) \div 100

\* norm.ppf(qmc.Sobol(n, scramble=True, seed=seed).random(M)): an M by n
\* matrix that is a fixed function of the dimension and of the seed of the
\* scrambling.
SobolNormal(n, seed, M) ==
    [i \in 1..M |-> [k \in 1..n |-> ZGrid[((2 * seed + 3 * i + 2 * k + i * k + n) % Len(ZGrid)) + 1]]]

\* paths[:, k] of simulate_paths on one row z of Z, k = 0..n
RECURSIVE PathPrice(_, _, _, _, _)
PathPrice(S, drift, vol, z, k) ==
    IF k = 0 THEN S
    ELSE MulFx(PathPrice(S, drift, vol, z, k - 1), ExpFx(drift + MulFx(vol, z[k])))

\* simulate_paths, lines 9-21: M rows of n + 1 prices, the first of them S
simulate_paths(S, r, sigma, T, n, M, Z) ==
    LET dt == TDiv(T, n)
        drift == MulFx(r - TDiv(MulFx(sigma, sigma), 2), dt)
        vol == MulFx(sigma, SqrtFx(dt))
    IN  [i \in 1..M |-> [c \in 1..(n + 1) |-> PathPrice(S, drift, vol, Z[i], c - 1)]]

\* lines 101-104 and 122-123: the payoffs of the paths driven by Z
KikoPayoffs(S, K, r, T, sigma, L, U, R, n, Z) ==
    LET paths == simulate_paths(S, r, sigma, T, n, Len(Z), Z)
    IN  [i \in 1..Len(Z) |-> calculate_payoffs(paths[i], K, L, U, R)]

\* line 107 (and 124, 130): exp(-r*T) * mean(payoffs)
KikoPrice(payoffs, r, T) == MulFx(ExpFx(-MulFx(r, T)), MeanFx(payoffs))

\* line 108: exp(-r*T) * std(payoffs) / sqrt(M)
KikoStderr(payoffs, r, T) ==
    DivFx(MulFx(ExpFx(-MulFx(r, T)), StdFx(payoffs)), SqrtFx(Len(payoffs) * SC))

\* An interval that starts at the price.
ConfIntervalOneSided(price, stderr) == <<price, price + MulFx(Z95, stderr)>>

\* line 111: (price - 1.96 * stderr, price + 1.96 * stderr)
ConfInterval(price, stderr) == <<price - MulFx(Z95, stderr), price + MulFx(Z95, stderr)>>

\* src/app.py line 695: [price - 1.96 * stderr, price + 1.96 * stderr]
AsianConfInterval(price, stderr) == <<price - MulFx(Z95, stderr), price + MulFx(Z95, stderr)>>

\* line 117: h = S * 0.01
BumpSize(S) == TDiv(S, 100)

QInit ==
    /\ qentry \in {"kiko_quasi_mc", "calculate_arithmetic_asian"}
    /\ IF qentry = "kiko_quasi_mc"
       THEN /\ qS \in {(9 * SC) \div 10, SC, (11 * SC) \div 10}
            /\ qK \in {SC, (12 * SC) \div 10}
            /\ qr \in {0, (5 * SC) \div 100}
            /\ qT = SC
            /\ qsigma = (2 * SC) \div 10
            /\ qL \in {(8 * SC) \div 10, (95 * SC) \div 100}
            /\ qU \in {(105 * SC) \div 100, (13 * SC) \div 10}
            /\ qR \in {-1, 0, SC \div 10}
            /\ qn \in 1..MaxObs
            /\ qcalc \in BOOLEAN
            /\ qtype = ""
       ELSE /\ qS = ReqS /\ qK = ReqK /\ qr = ReqR /\ qT = ReqT
            /\ qsigma = ReqSigma /\ qL = 0 /\ qU = 0 /\ qR = 0 /\ qn = ReqN
            /\ qcalc = FALSE
            /\ qtype \in {"call", "put"}
    /\ qpc = "start"
    /\ qseeds = <<>>
    /\ qpoints = <<>>
    /\ qprice = 0 /\ qstderr = 0 /\ qconf = <<>>
    /\ qprice_up = 0 /\ qprice_down = 0 /\ qdelta = 0

\* kiko_quasi_mc, lines 76-92: validation
QValidate ==
    /\ qentry = "kiko_quasi_mc"
    /\ qpc = "start"
    /\ qpc' = IF KikoValidate(qS, qK, qr, qT, qsigma, qL, qU, qR, qn) = "ok"
              THEN "base" ELSE "raised"
    /\ UNCHANGED <<qentry, qargs, qseeds, qpoints, qprice, qstderr, qconf, qprice_up, qprice_down, qdelta>>
    /\ UNCHANGED qothers

\* lines 94-114: the base valuation, and the return without delta
QBase ==
    /\ qpc = "base"
    /\ LET Z == SobolNormal(qn, SobolSeedBase, MaxPaths)
           payoffs == KikoPayoffs(qS, qK, qr, qT, qsigma, qL, qU, qR, qn, Z)
           price == KikoPrice(payoffs, qr, qT)
           stderr == KikoStderr(payoffs, qr, qT)
       IN  /\ qseeds' = Append(qseeds, SobolSeedBase)
           /\ qpoints' = Append(qpoints, Z)
           /\ qprice' = price
           /\ qstderr' = stderr
           /\ qconf' = ConfInterval(price, stderr)
    /\ qpc' = IF qcalc THEN "up" ELSE "returned"
    /\ UNCHANGED <<qentry, qargs, qprice_up, qprice_down, qdelta>>
    /\ UNCHANGED qothers

\* lines 117-124: the valuation of S + h
QUp ==
    /\ qpc = "up"
    /\ LET Z_up == SobolNormal(qn, SobolSeedUp, MaxPaths)
           payoffs_up == KikoPayoffs(qS + BumpSize(qS), qK, qr, qT, qsigma, qL, qU, qR, qn, Z_up)
       IN  /\ qseeds' = Append(qseeds, SobolSeedUp)
           /\ qpoints' = Append(qpoints, Z_up)
           /\ qprice_up' = KikoPrice(payoffs_up, qr, qT)
    /\ qpc' = "down"
    /\ UNCHANGED <<qentry, qargs, qprice, qstderr, qconf, qprice_down, qdelta>>
    /\ UNCHANGED qothers

\* lines 126-134: the valuation of S - h, delta and the return
QDown ==
    /\ qpc = "down"
    /\ LET Z_down == SobolNormal(qn, SobolSeedDown, MaxPaths)
           payoffs_down == KikoPayoffs(qS - BumpSize(qS), qK, qr, qT, qsigma, qL, qU, qR, qn, Z_down)
           price_down == KikoPrice(payoffs_down, qr, qT)
       IN  /\ qseeds' = Append(qseeds, SobolSeedDown)
           /\ qpoints' = Append(qpoints, Z_down)
           /\ qprice_down' = price_down
           /\ qdelta' = DivFx(qprice_up - price_down, 2 * BumpSize(qS))
    /\ qpc' = "returned"
    /\ UNCHANGED <<qentry, qargs, qprice, qstderr, qconf, qprice_up>>
    /\ UNCHANGED qothers

\* src/app.py lines 690-700: calculate_arithmetic_asian prices the request
\* and displays the price, the standard error and the interval
CalculateArithmeticAsianInterval ==
    /\ qentry = "calculate_arithmetic_asian"
    /\ qpc = "start"
    /\ LET result == arithmetic_asian_mc(qtype, "none", Stream([seed |-> SeedAsian, pos |-> 0], NumSim * ReqN))
       IN  /\ qprice' = result[1]
           /\ qstderr' = result[2]
           /\ qconf' = AsianConfInterval(result[1], result[2])
    /\ qpc' = "rendered"
    /\ UNCHANGED <<qentry, qargs, qseeds, qpoints, qprice_up, qprice_down, qdelta>>
    /\ UNCHANGED qothers

QNext == QValidate \/ QBase \/ QUp \/ QDown \/ CalculateArithmeticAsianInterval

\* kiko_quasi_mc's report is not in use.
QIdle ==
    /\ qentry = "" /\ qS = 0 /\ qK = 0 /\ qr = 0 /\ qT = 0 /\ qsigma = 0
    /\ qL = 0 /\ qU = 0 /\ qR = 0 /\ qn = 0 /\ qcalc = FALSE /\ qtype = ""
    /\ qpc = "idle" /\ qseeds = <<>> /\ qpoints = <<>>
    /\ qprice = 0 /\ qstderr = 0 /\ qconf = <<>>
    /\ qprice_up = 0 /\ qprice_down = 0 /\ qdelta = 0

\* ---------------------------------------------------------------------
\* The closed forms of the geometric Asian option
\* ---------------------------------------------------------------------

\* (n + 1)(2n + 1) / (6 n^2)
AsianVarianceRatio(n) == TDiv((n + 1) * (2 * n + 1) * SC, 6 * n * n)

\* arithmetic_asian_mc.py line 201: sigsqT
ExactVariance(sigma, T, n) == MulFx(MulFx(MulFx(sigma, sigma), T), AsianVarianceRatio(n))

\* arithmetic_asian_mc.py line 202: muT
ExactDrift(sigma, r, T, n) ==
    TDiv(ExactVariance(sigma, T, n), 2)
      + TDiv(MulFx(r - TDiv(MulFx(sigma, sigma), 2), T) * (n + 1), 2 * n)

\* arithmetic_asian_mc.py lines 201-219: geometric_asian_exact after its
\* validation
geometric_asian_exact(S0, sigma, r, T, K, n, option_type) ==
    LET sigsqT == ExactVariance(sigma, T, n)
        muT == ExactDrift(sigma, r, T, n)
        d1 == DivFx(LnFx(DivFx(S0, K)) + muT + TDiv(sigsqT, 2), SqrtFx(sigsqT))
        d2 == d1 - SqrtFx(sigsqT)
        disc == ExpFx(-MulFx(r, T))
    IN  IF option_type = "call"
        THEN MulFx(disc, MulFx(MulFx(S0, ExpFx(muT)), PhiFx(d1)) - MulFx(K, PhiFx(d2)))
        ELSE MulFx(disc, MulFx(K, PhiFx(-d2)) - MulFx(MulFx(S0, ExpFx(muT)), PhiFx(-d1)))

\* arithmetic_asian_mc.py lines 72-78: discount * np.maximum(...)
AsianControlDiscount(r, T) == ExpFx(-MulFx(r, T))

\* arithmetic_asian_mc.py lines 213, 218: price = np.exp(-r * T) * (...)
AsianReferenceDiscount(r, T) == ExpFx(-MulFx(r, T))

\* ---------------------------------------------------------------------
\* The paths behind the payoffs and the control payoffs
\* (src/models/arithmetic_basket_mc.py lines 66-117,
\* src/models/arithmetic_asian_mc.py lines 30-45, 69-80, 134-137)
\* ---------------------------------------------------------------------

\* The draws since seeding that feed the path starting after `pos` draws:
\* 2n for a basket path
BasketPathDraws(pos) == (pos + 1)..(pos + 2 * ReqN)

\* arithmetic_basket_mc.py lines 73-79 (102-108): S1_path and S2_path of
\* the path starting after `pos` draws
BasketPath(draws, pos) ==
    <<[j \in 0..(ReqN - 1) |-> S1At(draws, pos + 1, j)],
      [j \in 0..(ReqN - 1) |-> S2At(draws, pos + 1, j)]>>

\* arithmetic_asian_mc.py line 36: row i of Z is draws n*(i-1)+1 .. n*i
AsianPathDraws(i) == (ReqN * (i - 1) + 1)..(ReqN * i)

\* arithmetic_asian_mc.py lines 39-45: row i of the paths returned
AsianPath(draws, i) == [k \in 1..ReqN |-> AsianPathPrice(draws, i, k)]

\* arithmetic_asian_mc.py lines 69, 72-77: the arithmetic payoff of a row
AsianArithPayoff(option_type, path) ==
    MulFx(ExpFx(-MulFx(ReqR, ReqT)),
          Payoff(option_type, TDiv(SumSeq(path), Len(path)), ReqK))

\* arithmetic_asian_mc.py lines 70, 72-78: the geometric payoff of a row
AsianGeoPayoff(option_type, path) ==
    MulFx(AsianControlDiscount(ReqR, ReqT),
          Payoff(option_type,
                 ExpFx(TDiv(SumSeq([k \in 1..Len(path) |-> LnFx(path[k])]), Len(path))),
                 ReqK))

\* The draws of the generator seeded by the entry point.
PairStream(entry, k) ==
    Stream([seed |-> IF entry = "arithmetic_basket_mc" THEN SeedBasket ELSE SeedAsian,
            pos |-> 0], k)

PairInit ==
    /\ pentry \in {"arithmetic_basket_mc", "arithmetic_asian_mc"}
    /\ ptype \in {"call", "put"}
    /\ pcv \in {"none", "geometric", "antithetic"}
    /\ pM \in 0..MaxBatch
    /\ ppc = "start"
    /\ ppos = 0
    /\ pXpaths = <<>> /\ pYpaths = <<>>
    /\ pXdraws = <<>> /\ pYdraws = <<>>
    /\ pX = <<>> /\ pY = <<>>
    /\ pXlevel = <<>> /\ pYlevel = <<>> /\ pref = <<>> /\ pYdisc = 0 /\ prefdisc = 0

\* arithmetic_basket_mc.py lines 36-60, arithmetic_asian_mc.py lines
\* 113-131: validation
PairValidate ==
    /\ ppc = "start"
    /\ LET msg == IF pentry = "arithmetic_basket_mc"
                  THEN BasketValidate(ReqS, ReqS, ReqSigma, ReqSigma, ReqR, ReqT, ReqK,
                                      ReqRho, ReqN, ptype, pM, pcv)
                  ELSE AsianValidate(ReqS, ReqSigma, ReqR, ReqT, ReqK, ReqN, ptype, pM, pcv)
       IN  ppc' = IF msg = "ok" THEN "simulate" ELSE "raised"
    /\ UNCHANGED <<pentry, ptype, pcv, pM, ppos, pXpaths, pYpaths, pXdraws, pYdraws, pX, pY>>
    /\ UNCHANGED <<pref, pYdisc, prefdisc>>
    /\ UNCHANGED pXlevel
    /\ UNCHANGED pYlevel
    /\ UNCHANGED pothers

\* arithmetic_basket_mc.py lines 66-90: np.random.seed(42), then one pass
\* of the first loop
BasketArithPath ==
    /\ pentry = "arithmetic_basket_mc"
    /\ ppc \in {"simulate", "arith"}
    /\ Len(pX) < pM
    /\ LET draws == PairStream(pentry, ppos + 2 * ReqN)
       IN  /\ pXpaths' = Append(pXpaths, BasketPath(draws, ppos))
           /\ pXdraws' = Append(pXdraws, BasketPathDraws(ppos))
           /\ pX' = Append(pX, BasketArithPayoff(ptype, draws, ppos + 1))
           /\ pXlevel' = Append(pXlevel, arithmetic_avg(BasketPath(draws, ppos)[1],
                                                        BasketPath(draws, ppos)[2]))
    /\ ppos' = ppos + 2 * ReqN
    /\ ppc' = IF Len(pX) + 1 < pM THEN "arith"
              ELSE IF pcv = "geometric" THEN "reference" ELSE "returned"
    /\ UNCHANGED <<pentry, ptype, pcv, pM, pYpaths, pYdraws, pY, pref, pYdisc, prefdisc>>
    /\ UNCHANGED pYlevel
    /\ UNCHANGED pothers

\* line 95: geometric_basket draws 2n numbers for its own path and
\* returns the discounted payoff of that path
BasketReference ==
    /\ ppc = "reference"
    /\ pref' = <<geometric_basket(ptype, SubSeq(PairStream(pentry, ppos + 2 * ReqN),
                                                ppos + 1, ppos + 2 * ReqN))>>
    /\ prefdisc' = BasketReferenceDiscount(ReqR, ReqT)
    /\ ppos' = ppos + 2 * ReqN
    /\ ppc' = "geo"
    /\ UNCHANGED <<pentry, ptype, pcv, pM, pXpaths, pYpaths, pXdraws, pYdraws, pX, pY, pYdisc>>
    /\ UNCHANGED pXlevel
    /\ UNCHANGED pYlevel
    /\ UNCHANGED pothers

\* lines 100-117: one pass of the second loop; after the last one the
\* adjustment of lines 120-133 and the return
BasketGeoPath ==
    /\ ppc = "geo"
    /\ Len(pY) < pM
    /\ LET draws == PairStream(pentry, ppos + 2 * ReqN)
       IN  /\ pYpaths' = Append(pYpaths, BasketPath(draws, ppos))
           /\ pYdraws' = Append(pYdraws, BasketPathDraws(ppos))
           /\ pY' = Append(pY, MulFx(BasketControlDiscount(ReqR, ReqT),
                                     BasketGeoPayoff(ptype, draws, ppos + 1)))
    /\ pYdisc' = BasketControlDiscount(ReqR, ReqT)
    /\ pYlevel' = Append(pYlevel,
                         control_geo_avg(BasketPath(PairStream(pentry, ppos + 2 * ReqN), ppos)[1],
                                         BasketPath(PairStream(pentry, ppos + 2 * ReqN), ppos)[2]))
    /\ ppos' = ppos + 2 * ReqN
    /\ ppc' = IF Len(pY) + 1 < pM THEN "geo" ELSE "returned"
    /\ UNCHANGED <<pentry, ptype, pcv, pM, pXpaths, pXdraws, pX, pref, prefdisc>>
    /\ UNCHANGED pXlevel
    /\ UNCHANGED pothers

\* arithmetic_asian_mc.py line 134: simulate_paths seeds the generator and
\* draws the whole of Z
AsianSimulate ==
    /\ pentry = "arithmetic_asian_mc"
    /\ ppc = "simulate"
    /\ ppos' = pM * ReqN
    /\ ppc' = "payoffs"
    /\ UNCHANGED <<pentry, ptype, pcv, pM, pXpaths, pYpaths, pXdraws, pYdraws, pX, pY>>
    /\ UNCHANGED <<pref, pYdisc, prefdisc>>
    /\ UNCHANGED pXlevel
    /\ UNCHANGED pYlevel
    /\ UNCHANGED pothers

\* line 137: compute_payoffs works out both payoffs of every row of paths
AsianComputePayoffs ==
    /\ ppc = "payoffs"
    /\ LET draws == PairStream(pentry, ppos)
           paths == [i \in 1..pM |-> AsianPath(draws, i)]
       IN  /\ pXpaths' = paths
           /\ pYpaths' = paths
           /\ pXdraws' = [i \in 1..pM |-> AsianPathDraws(i)]
           /\ pYdraws' = [i \in 1..pM |-> AsianPathDraws(i)]
           /\ pX' = [i \in 1..pM |-> AsianArithPayoff(ptype, paths[i])]
           /\ pXlevel' = [i \in 1..pM |-> TDiv(SumSeq(paths[i]), Len(paths[i]))]
           /\ pYlevel' = [i \in 1..pM |->
                            ExpFx(TDiv(SumSeq([k \in 1..ReqN |-> LnFx(paths[i][k])]), ReqN))]
           /\ pY' = [i \in 1..pM |-> AsianGeoPayoff(ptype, paths[i])]
    /\ pYdisc' = AsianControlDiscount(ReqR, ReqT)
    /\ ppc' = IF pcv = "geometric" THEN "exact" ELSE "returned"
    /\ UNCHANGED <<pentry, ptype, pcv, pM, ppos, pref, prefdisc>>
    /\ UNCHANGED pothers

\* lines 140-149: geometric_asian_exact gives the reference value; then the
\* adjustment and the return
AsianReference ==
    /\ ppc = "exact"
    /\ pref' = <<geometric_asian_exact(ReqS, ReqSigma, ReqR, ReqT, ReqK, ReqN, ptype)>>
    /\ prefdisc' = AsianReferenceDiscount(ReqR, ReqT)
    /\ ppc' = "returned"
    /\ UNCHANGED <<pentry, ptype, pcv, pM, ppos, pXpaths, pYpaths, pXdraws, pYdraws, pX, pY, pYdisc>>
    /\ UNCHANGED pXlevel
    /\ UNCHANGED pYlevel
    /\ UNCHANGED pothers

PairNext ==
    \/ PairValidate
    \/ BasketArithPath \/ BasketReference \/ BasketGeoPath
    \/ AsianSimulate \/ AsianComputePayoffs \/ AsianReference

\* No simulation with a control variate is in progress.
PairIdle ==
    /\ pentry = "" /\ ptype = "" /\ pcv = "" /\ pM = 0 /\ ppc = "idle" /\ ppos = 0
    /\ pXpaths = <<>> /\ pYpaths = <<>> /\ pXdraws = <<>> /\ pYdraws = <<>>
    /\ pX = <<>> /\ pY = <<>>
    /\ pXlevel = <<>> /\ pYlevel = <<>> /\ pref = <<>> /\ pYdisc = 0 /\ prefdisc = 0

\* ---------------------------------------------------------------------
\* The three closed forms of the geometric Asian option
\* (src/models/geometric_asian.py, geometric_asian_exact of
\* src/models/arithmetic_asian_mc.py, src/geometric_asian.py)
\* ---------------------------------------------------------------------

\* A bound on the number of observations of the closed forms.
MaxAsianObs == 3

\* The price of the closed form shared by the implementations, given the
\* effective variance v = sigma_hat^2 * T and the effective drift m = mu_hat * T:
\* exp(-r T) * (S exp(m) N(d1) - K N(d2)) for a call.
AsianClosedForm(S, K, r, T, v, m, option_type) ==
    LET d1 == DivFx(LnFx(DivFx(S, K)) + m + TDiv(v, 2), SqrtFx(v))
        d2 == d1 - SqrtFx(v)
        disc == ExpFx(-MulFx(r, T))
    IN  IF option_type = "call"
        THEN MulFx(disc, MulFx(MulFx(S, ExpFx(m)), PhiFx(d1)) - MulFx(K, PhiFx(d2)))
        ELSE MulFx(disc, MulFx(K, PhiFx(-d2)) - MulFx(MulFx(S, ExpFx(m)), PhiFx(-d1)))

\* src/models/geometric_asian.py line 48:
\* sigma_hat = sigma * sqrt((n+1) * (2n+1) / (6 n^2)); sigma_hat^2 * T
ModelsVariance(sigma, T, n) ==
    MulFx(MulFx(MulFx(sigma, SqrtFx(AsianVarianceRatio(n))),
                MulFx(sigma, SqrtFx(AsianVarianceRatio(n)))), T)

\* src/models/geometric_asian.py line 49: mu_hat * T
ModelsDrift(sigma, r, T, n) ==
    MulFx(TDiv((r - TDiv(MulFx(sigma, sigma), 2)) * (n + 1), 2 * n)
            + TDiv(MulFx(MulFx(sigma, SqrtFx(AsianVarianceRatio(n))),
                         MulFx(sigma, SqrtFx(AsianVarianceRatio(n)))), 2),
          T)

\* src/models/geometric_asian.py lines 46-62 after the validation
geometric_asian(S0, sigma, r, T, K, n, option_type) ==
    AsianClosedForm(S0, K, r, T, ModelsVariance(sigma, T, n), ModelsDrift(sigma, r, T, n),
                    option_type)

\* src/geometric_asian.py line 31: sigma_hat = sigma * sqrt((2n+1) / (6 (n+1)))
TopSigmaHat(sigma, n) == MulFx(sigma, SqrtFx(TDiv((2 * n + 1) * SC, 6 * (n + 1))))

\* sigma_hat^2 * T of src/geometric_asian.py
TopVariance(sigma, T, n) == MulFx(MulFx(TopSigmaHat(sigma, n), TopSigmaHat(sigma, n)), T)

\* src/geometric_asian.py line 32: mu_hat * T
TopDrift(sigma, r, T, n) ==
    MulFx(TDiv((r - TDiv(MulFx(sigma, sigma), 2)) * (n + 1), 2 * n)
            + TDiv(MulFx(TopSigmaHat(sigma, n), TopSigmaHat(sigma, n)), 2),
          T)

\* src/geometric_asian.py lines 30-45
top_geometric_asian(S, K, r, T, sigma, n, option_type) ==
    AsianClosedForm(S, K, r, T, TopVariance(sigma, T, n), TopDrift(sigma, r, T, n),
                    option_type)

GeoInit ==
    /\ gS \in {(9 * SC) \div 10, SC, (11 * SC) \div 10}
    /\ gK = SC
    /\ gr \in {0, (5 * SC) \div 100}
    /\ gT \in {SC, 2 * SC}
    /\ gsigma \in {(2 * SC) \div 10, (3 * SC) \div 10}
    /\ gn \in 0..MaxAsianObs
    /\ gtype \in {"call", "put"}
    /\ gpc = "start"
    /\ gvariance = <<>> /\ gdrift = <<>> /\ gprices = <<>>

\* models.geometric_asian.geometric_asian: validation (lines 30-44), then
\* the formula
GeoModels ==
    /\ gpc = "start"
    /\ IF GeoAsianValidate(gS, gsigma, gr, gT, gK, gn, gtype) = "ok"
       THEN /\ gvariance' = Append(gvariance, ModelsVariance(gsigma, gT, gn))
            /\ gdrift' = Append(gdrift, ModelsDrift(gsigma, gr, gT, gn))
            /\ gprices' = Append(gprices, geometric_asian(gS, gsigma, gr, gT, gK, gn, gtype))
            /\ gpc' = "exact"
       ELSE /\ gpc' = "raised"
            /\ UNCHANGED <<gvariance, gdrift, gprices>>
    /\ UNCHANGED <<gS, gK, gr, gT, gsigma, gn, gtype>>
    /\ UNCHANGED gothers

\* models.arithmetic_asian_mc.geometric_asian_exact on the same contract
GeoExact ==
    /\ gpc = "exact"
    /\ gvariance' = Append(gvariance, ExactVariance(gsigma, gT, gn))
    /\ gdrift' = Append(gdrift, ExactDrift(gsigma, gr, gT, gn))
    /\ gprices' = Append(gprices, geometric_asian_exact(gS, gsigma, gr, gT, gK, gn, gtype))
    /\ gpc' = "top"
    /\ UNCHANGED <<gS, gK, gr, gT, gsigma, gn, gtype>>
    /\ UNCHANGED gothers

\* The top-level geometric_asian.geometric_asian on the same contract
GeoTop ==
    /\ gpc = "top"
    /\ gvariance' = Append(gvariance, TopVariance(gsigma, gT, gn))
    /\ gdrift' = Append(gdrift, TopDrift(gsigma, gr, gT, gn))
    /\ gprices' = Append(gprices, top_geometric_asian(gS, gK, gr, gT, gsigma, gn, gtype))
    /\ gpc' = "done"
    /\ UNCHANGED <<gS, gK, gr, gT, gsigma, gn, gtype>>
    /\ UNCHANGED gothers

GeoNext == GeoModels \/ GeoExact \/ GeoTop

\* No closed form is being evaluated.
GeoIdle ==
    /\ gS = 0 /\ gK = 0 /\ gr = 0 /\ gT = 0 /\ gsigma = 0 /\ gn = 0 /\ gtype = ""
    /\ gpc = "idle" /\ gvariance = <<>> /\ gdrift = <<>> /\ gprices = <<>>

\* The lattice is not in use.
AmIdle ==
    /\ aS = 0 /\ aK = 0 /\ ar = 0 /\ aT = 0 /\ asigma = 0 /\ aN = 0
    /\ atype = "none" /\ apc = "idle"
    /\ asset_prices = <<>> /\ option_values = <<>>
    /\ aj = 0 /\ ai = 0 /\ acont = 0 /\ aex = 0 /\ aupdates = 0
    /\ aprice = 0 /\ aeuro = 0 /\ apremium = 0

\* The KIKO pricer is not in use.
KikoIdle ==
    /\ kS = 0 /\ kK = 0 /\ kr = 0 /\ kT = 0 /\ ksigma = 0 /\ kL = 0 /\ kU = 0
    /\ kR = 0 /\ kn = 0 /\ kpc = "idle"
    /\ kpath = <<>> /\ kpayoffs = <<>> /\ kprice = 0

InitKiko == KikoInit /\ AmIdle /\ RngIdle /\ CvIdle /\ VIdle /\ IvIdle /\ QIdle /\ PairIdle /\ GeoIdle

SpecKiko == InitKiko /\ [][KikoNext]_vars

InitAmerican == AmInit /\ KikoIdle /\ RngIdle /\ CvIdle /\ VIdle /\ IvIdle /\ QIdle /\ PairIdle /\ GeoIdle

SpecAmerican == InitAmerican /\ [][AmNext]_vars

InitSeq == RngInit /\ KikoIdle /\ AmIdle /\ CvIdle /\ VIdle /\ IvIdle /\ QIdle /\ PairIdle /\ GeoIdle

\* Pricing calls made one after another in one process.
SpecSeq == InitSeq /\ [][RngNext]_vars

InitConc == ConcInit /\ KikoIdle /\ AmIdle /\ CvIdle /\ VIdle /\ IvIdle /\ QIdle /\ PairIdle /\ GeoIdle

\* Two simulation requests served by two threads.
SpecConc == InitConc /\ [][ConcNext]_vars

InitCv == CvInit /\ KikoIdle /\ AmIdle /\ RngIdle /\ VIdle /\ IvIdle /\ QIdle /\ PairIdle /\ GeoIdle

\* The adjustment of one batch of payoffs.
SpecCv == InitCv /\ [][CvNext]_vars

InitValidate == VInit /\ KikoIdle /\ AmIdle /\ RngIdle /\ CvIdle /\ IvIdle /\ QIdle /\ PairIdle /\ GeoIdle

\* One call of any entry point with arguments inside and outside their
\* domains.
SpecValidate == InitValidate /\ [][VNext]_vars

InitIv == IvInit /\ KikoIdle /\ AmIdle /\ RngIdle /\ CvIdle /\ VIdle /\ QIdle /\ PairIdle /\ GeoIdle

\* One call of implied_volatility.
SpecIv == InitIv /\ [][IvNext]_vars

InitReport == QInit /\ KikoIdle /\ AmIdle /\ RngIdle /\ CvIdle /\ VIdle /\ IvIdle /\ PairIdle /\ GeoIdle

\* One call of kiko_quasi_mc, or of the Asian callback, up to the figures
\* it reports.
SpecReport == InitReport /\ [][QNext]_vars

InitPair == PairInit /\ KikoIdle /\ AmIdle /\ RngIdle /\ CvIdle /\ VIdle /\ IvIdle /\ QIdle /\ GeoIdle

\* One simulation of arithmetic_basket_mc or arithmetic_asian_mc, path by
\* path.
SpecPair == InitPair /\ [][PairNext]_vars

InitGeo == GeoInit /\ KikoIdle /\ AmIdle /\ RngIdle /\ CvIdle /\ VIdle /\ IvIdle /\ QIdle /\ PairIdle

\* One contract priced by each of the three closed forms in turn.
SpecGeo == InitGeo /\ [][GeoNext]_vars

\* ------------------------------------------------------------------------
\* Claims on the American binomial tree
\* ------------------------------------------------------------------------

\* What the fixed-point arithmetic can be off by, against the real value.
FxTol == SC \div 500

\* The European value of node i of level j on the lattice of the current
\* call: the backward induction of lines 60-62 without the early-exercise
\* comparison.
RECURSIVE EuroNode(_, _)
EuroNode(j, i) ==
    IF j = aN
    THEN Max(0, Intrinsic(atype, TerminalPrice(aS, asigma, aT, aN, i), aK))
    ELSE Continuation(ar, asigma, aT, aN, EuroNode(j + 1, i), EuroNode(j + 1, i + 1))

\* 0 <= p <= 1 for the current call
ProbInUnit ==
    /\ RiskNeutralP(ar, asigma, aT, aN) >= 0
    /\ RiskNeutralP(ar, asigma, aT, aN) <= SC

C5_Original ==
    /\ (apc = "induct" /\ aupdates > 0 /\ atype = "call" /\ ProbInUnit)
          => aex <= acont + FxTol
    /\ (apc = "returned" /\ atype = "call" /\ ProbInUnit)
          => Abs(aprice - EuroNode(0, 0)) <= FxTol

\* The node the last pass of the inner loop worked on: the counters have
\* moved on to the next node.
LastLevel == IF ai > 0 THEN aj ELSE aj + 1

LastNode == IF ai > 0 THEN ai - 1 ELSE aj + 1

\* S * u^(j - i) * d^i, the asset price at node i of level j
NodePrice(S, sigma, T, N, j, i) ==
    MulFx(MulFx(S, PowFx(UpFactor(sigma, T, N), j - i)), PowFx(DownFactor(sigma, T, N), i))

\* C18: the exercise value compared with the continuation value at level j,
\* node i is the intrinsic value at the node's own asset price
\* S * u^(j - i) * d^i.
C18_Original ==
    (apc = "induct" /\ aupdates > 0) =>
        Abs(aex - Intrinsic(atype, NodePrice(aS, asigma, aT, aN, LastLevel, LastNode), aK)) <= FxTol

\* The node updates made when the loops stand at node i of level j of an
\* N-step lattice: the levels N-1 .. j+1 in full, and i nodes of level j.
UpdatesBefore(N, j, i) == (N * (N + 1)) \div 2 - ((j + 1) * (j + 2)) \div 2 + i

\* C24: for N steps there are N + 1 terminal nodes, node i at price
\* S * u^(N-i) * d^i; the levels are processed from N - 1 down to 0, the
\* nodes 0..j of level j in turn, so that N(N+1)/2 node updates have been
\* made when the loops end, and the value returned is V[0].
C24_LatticeShape ==
    /\ (apc \in {"induct", "returned"}) =>
          /\ DOMAIN asset_prices = 0..aN
          /\ DOMAIN option_values = 0..aN
          /\ \A i \in 0..aN :
                asset_prices[i] =
                    MulFx(MulFx(aS, PowFx(UpFactor(asigma, aT, aN), aN - i)),
                          PowFx(DownFactor(asigma, aT, aN), i))
    /\ (apc = "induct") =>
          /\ aj \in -1..(aN - 1)
          /\ ai \in 0..Max(aj, 0)
          /\ aupdates = UpdatesBefore(aN, aj, ai)
    /\ (apc = "returned") =>
          /\ aj = -1
          /\ aupdates = (aN * (aN + 1)) \div 2
          /\ aprice = option_values[0]

\* The deepest lattice has been priced.
C24_Witness ==
    /\ apc = "returned" /\ aN = MaxSteps
    /\ aupdates = (MaxSteps * (MaxSteps + 1)) \div 2
    /\ aprice = option_values[0]

\* The value of node i of level j on the full two-dimensional tree of the
\* current call: every level kept, each node computed from the two nodes of
\* the level below with the continuation and exercise values of lines 62-67.
RECURSIVE TreeValue(_, _)
TreeValue(j, i) ==
    IF j = aN
    THEN Max(0, Intrinsic(atype, asset_prices[i], aK))
    ELSE NodeValue(Continuation(ar, asigma, aT, aN, TreeValue(j + 1, i), TreeValue(j + 1, i + 1)),
                   Intrinsic(atype, ExercisePrice(asset_prices, aS, asigma, aT, aN, j, i), aK))

\* C25: while level j is being computed in place, the entries below the
\* current node hold the values of level j and the entries from the current
\* node up to j + 1 still hold the values of level j + 1, so every node is
\* computed from two values of the level below and the value returned is
\* the root of the full tree.
C25_InPlaceIsTree ==
    /\ (apc = "induct" /\ aj >= 0) =>
          /\ \A i \in 0..(ai - 1) : option_values[i] = TreeValue(aj, i)
          /\ \A i \in ai..(aj + 1) : option_values[i] = TreeValue(aj + 1, i)
    /\ (apc = "returned") => aprice = TreeValue(0, 0)

\* A level of the deepest lattice has been completed in place and the next
\* one is about to start on entries that hold two distinct values of it.
C25_Witness ==
    /\ apc = "induct" /\ aN = MaxSteps /\ aupdates >= 2 /\ aj >= 0 /\ ai = 0
    /\ TreeValue(aj + 1, aj) # TreeValue(aj + 1, aj + 1)
    /\ option_values[aj + 1] = TreeValue(aj + 1, aj + 1)

\* C26: the price returned is never below the value of exercising at once:
\* max(K - S, 0) for a put, max(S - K, 0) for a call.
C26_Original ==
    (apc = "returned") => aprice >= Max(0, Intrinsic(atype, aS, aK)) - FxTol

\* C27: for every input that passes the validation the risk-neutral
\* probability lies in [0, 1].
C27_Original ==
    (apc \in {"induct", "returned"}) => ProbInUnit

\* ------------------------------------------------------------------------
\* Claims on the KIKO pricer
\* ------------------------------------------------------------------------

KRowDone == kpc \in {"simulate", "returned"} /\ kpayoffs # <<>>

\* C1: a row on which some observed price is at or above U is paid the
\* rebate R, wherever on the row an observation at or below L lies: a
\* knock-out dominates a knock-in regardless of the order of the two.
C1_KnockOutDominates ==
    KRowDone =>
        ((\E j \in 1..Len(kpath) : kpath[j] >= kU) => LastOf(kpayoffs) = kR)

\* A row knocked in strictly before it is knocked out, and paid R where
\* the put would have paid something else.
C1_Witness ==
    /\ KRowDone
    /\ \E i, j \in 1..Len(kpath) :
          i < j /\ kpath[i] <= kL /\ kpath[i] < kU - Eps /\ kpath[j] >= kU
    /\ LastOf(kpayoffs) = kR
    /\ kR # Max(kK - LastOf(kpath), 0)

\* C2 as stated, the barrier state being the one of the specification
\* (knocked out: some price >= U; knocked in: some price <= L).
C2_Original ==
    KRowDone =>
        LastOf(kpayoffs) =
            IF \E j \in 1..Len(kpath) : kpath[j] >= kU THEN kR
            ELSE IF \E j \in 1..Len(kpath) : kpath[j] <= kL
                 THEN Max(kK - LastOf(kpath), 0)
                 ELSE 0

\* C2, amended: the payoff of a row is R if some price is at or above
\* U - 1e-8, else max(K - S_T, 0) if some price is at or below L + 1e-8,
\* else 0, S_T being the last price of the row.
C2_PayoffByState ==
    KRowDone =>
        LET out == \E j \in 1..Len(kpath) : kpath[j] + Eps >= kU
            in  == \E j \in 1..Len(kpath) : kpath[j] - Eps <= kL
            put == IF kK > kpath[kn + 1] THEN kK - kpath[kn + 1] ELSE 0
        IN  /\ out => LastOf(kpayoffs) = kR
            /\ (~out /\ in) => LastOf(kpayoffs) = put
            /\ (~out /\ ~in) => LastOf(kpayoffs) = 0

\* A knocked-in row paid a positive put payoff that is not the rebate.
C2_Witness ==
    /\ KRowDone
    /\ \A j \in 1..Len(kpath) : kpath[j] + Eps < kU
    /\ \E j \in 1..Len(kpath) : kpath[j] <= kL
    /\ LastOf(kpayoffs) = kK - LastOf(kpath)
    /\ LastOf(kpayoffs) > 0
    /\ LastOf(kpayoffs) # kR

\* C3: for accepted inputs every per-path payoff lies in [0, max(R, K)] and
\* the returned price satisfies 0 <= price <= max(R, K). kprice is the
\* price times the number of paths times SC.
C3_PayoffBounded ==
    /\ kpc \in {"simulate", "returned"} =>
          \A m \in 1..Len(kpayoffs) :
              kpayoffs[m] >= 0 /\ kpayoffs[m] <= Max(kR, kK)
    /\ kpc = "returned" =>
          kprice >= 0 /\ kprice <= Max(kR, kK) * Len(kpayoffs) * SC

\* A returned price made of a rebate above the strike and of a put payoff.
C3_Witness ==
    /\ kpc = "returned"
    /\ kprice > 0
    /\ kR > kK
    /\ \E m \in 1..Len(kpayoffs) : kpayoffs[m] = kR
    /\ \E m \in 1..Len(kpayoffs) : kpayoffs[m] # kR /\ kpayoffs[m] > 0

\* ------------------------------------------------------------------------
\* Claims on calls made one after another
\* ------------------------------------------------------------------------

\* C6: every pricing entry point is deterministic and stateless: a call
\* returns what the first call with the same arguments returned, whatever
\* calls were made before or between.
C6_Original ==
    rlast # <<>> => <<rlast[1].result>> = rfirst[rlast[1].sig]

\* The same of the entry points other than geometric_basket.
SeededCallsRepeat ==
    (rlast # <<>> /\ rlast[1].sig.entry # "geometric_basket")
        => <<rlast[1].result>> = rfirst[rlast[1].sig]

\* ------------------------------------------------------------------------
\* Claims on requests served by two threads
\* ------------------------------------------------------------------------

\* What a request returns when nothing runs beside it.
AloneResult(req) ==
    ResultOf(req, Stream(Seeded([seed |-> SeedAsian, pos |-> 0], req), DrawsOf(req)))

\* C7: two simulation requests running concurrently never interfere: for
\* every interleaving of their seed and draw operations each request returns
\* the same result as when it runs alone.
C7_Original ==
    \A t \in Threads :
        th[t].pc = "done" => th[t].result = <<AloneResult(th[t].req)>>

\* ------------------------------------------------------------------------
\* Claims on the control variate
\* ------------------------------------------------------------------------

\* The estimate control_variate = 'none' returns on the batch.
Uncontrolled == Estimate(cv_payoffs, 1)

C9_Original ==
    (cvpc = "done" /\ cv_mode = "geometric" /\ VarNum(cv_geo_payoffs) = 0)
        => /\ ~cvout.nan
           /\ cvout.sum * Uncontrolled.den = Uncontrolled.sum * cvout.den
           /\ cvout.ss * Uncontrolled.den * Uncontrolled.den
                  = Uncontrolled.ss * cvout.den * cvout.den
           /\ cvwarnings # {}

\* ------------------------------------------------------------------------
\* Claims on the argument checks
\* ------------------------------------------------------------------------

\* C10: in every entry point a validation error is raised before any work
\* begins: the random source is neither seeded nor drawn from, no lattice
\* array is built and the root-finder has evaluated no pricing formula.
C10_RaisedBeforeWork ==
    vpc = "raised" => vwork = {}

\* implied_volatility given a rate above 1: its own checks pass, and the
\* error comes from black_scholes at the root-finder's first call.
C10_Witness ==
    /\ vpc = "raised"
    /\ ventry = "implied_volatility"
    /\ vargs.r > SC
    /\ IvValidate(vargs.S, vargs.K, vargs.r, vargs.q, vargs.T,
                  vargs.market_price, vargs.option_type) = "ok"

\* The rate lies in the valid range [0, 1].
RateInRange(r) == 0 <= r /\ r <= SC

\* C11: every entry point rejects every rate outside [0, 1] and accepts
\* every rate inside it: a call that gets past its checks to its end has a
\* rate in the range, and a call that raises has a rate outside it or
\* another argument outside its domain.
C11_Original ==
    /\ vpc = "done" => RateInRange(vargs.r)
    /\ vpc = "raised" =>
          \/ ~RateInRange(vargs.r)
          \/ EntryValidate(ventry, [vargs EXCEPT !.r = ReqR]) # "ok"

\* The entry points that take an observation count n.
TakesN ==
    {"geometric_asian", "geometric_basket", "arithmetic_asian_mc",
     "arithmetic_basket_mc", "kiko_quasi_mc"}

\* C12: an entry point that takes an observation count accepts every n > 0
\* and raises exactly when n is non-positive (n = 1 included among the
\* accepted, for the two basket pricers too): with its other arguments in
\* their domains a call raises only for n <= 0, and never ends with one.
C12_Original ==
    ventry \in TakesN =>
        /\ vpc = "done" => vargs.n > 0
        /\ (vpc = "raised" /\ EntryValidate(ventry, [vargs EXCEPT !.n = 2]) = "ok")
               => vargs.n <= 0

\* ------------------------------------------------------------------------
\* Claims on implied_volatility
\* ------------------------------------------------------------------------

\* The function has the same strict sign at both ends of the bracket as
\* first evaluated.
NoSignChange ==
    /\ ivfirst # <<>>
    /\ \/ ivfirst[1] > 0 /\ ivfirst[2] > 0
       \/ ivfirst[1] < 0 /\ ivfirst[2] < 0

\* C13: implied_volatility never returns a volatility when the pricing
\* function minus the premium does not change sign across the bracket: it
\* ends with an error and no numeric result; a value it returns lies inside
\* the bracket.
C13_NoRootNoResult ==
    /\ NoSignChange => (ivpc = "failed" /\ ivout = <<>>)
    /\ ivpc = "returned" =>
          /\ ivfirst # <<>> /\ ~NoSignChange
          /\ Len(ivout) = 1
          /\ BracketLow <= ivout[1] /\ ivout[1] <= BracketHigh

\* A premium above what any volatility of the bracket gives: the call has
\* ended with an error.
C13_Witness ==
    /\ NoSignChange
    /\ ivpc = "failed"
    /\ ivmarket > ivS /\ ivmarket > ivK

\* C14: a failure of the root-finder is reported with an error kind other
\* than the kind used for invalid inputs, and implied_volatility makes one
\* root-finding attempt only.
C14_Original ==
    /\ (ivpc = "failed" /\ NoSignChange) => iverr.kind # ErrorKind
    /\ ivattempts <= 1

\* ------------------------------------------------------------------------
\* Claims on results and errors
\* ------------------------------------------------------------------------

\* C15: no partial numeric result accompanies a fatal error: an entry point
\* that raises hands back no value and one that returns hands back all of
\* its values, and a callback renders either the result or an error
\* message, never both.
C15_ResultOrError ==
    /\ vpc \in {"raised", "failed"} => vout = {}
    /\ vpc = "done" => (vout = ResultFields(ventry, vargs) /\ vout # {})
    /\ vpc = "shown" => ((vview.error = "") # (vview.values = {}))

\* calculate_american with a rate above 1: american_binomial has returned a
\* price, black_scholes has raised, and only the message is rendered.
C15_Witness ==
    /\ vpc = "shown"
    /\ ventry = "american_binomial"
    /\ vout # {}
    /\ vview.error # "" /\ vview.values = {}

\* A request every check on the callback's way accepts: the callback's own,
\* the entry point's, those of the function the entry point calls, the
\* European pricing of calculate_american, and a premium that some
\* volatility of the bracket attains.
ValidRequest(entry, a) ==
    /\ CallbackCheck(entry, a) = "ok"
    /\ EntryValidate(entry, a) = "ok"
    /\ (entry \in {"arithmetic_asian_mc", "arithmetic_basket_mc"}
            /\ a.control_variate = "geometric") => NestedValidate(entry, a) = "ok"
    /\ entry = "implied_volatility" =>
            (NestedValidate(entry, a) = "ok" /\ a.market_price < Max(a.S, a.K))
    /\ entry = "american_binomial" =>
            BsValidate(a.S, a.K, a.r, 0, a.T, a.sigma, a.option_type) = "ok"

\* C30: for every instrument the callback calls the entry point with exactly
\* the arguments its signature requires and unpacks exactly the values it
\* returns, so that a request with valid inputs ends in a rendered result and
\* not in the error branch.
C30_Original ==
    (vcaller = "callback" /\ vpc = "shown" /\ ValidRequest(ventry, vargs)) =>
        /\ PassedArgs(ventry) = RequiredArgs(ventry)
        /\ UnpackedValues(ventry, vargs) = Cardinality(ResultFields(ventry, vargs))
        /\ vview.error = "" /\ vview.values # {}

\* ---------------------------------------------------------------------
\* Claims about the figures kiko_quasi_mc reports
\* ---------------------------------------------------------------------

\* C16: when calculate_delta is true, the valuations of the up-bumped and
\* of the down-bumped spot use the same scrambling seed, and so the same
\* points, as the base valuation.
C16_Original ==
    (qentry = "kiko_quasi_mc" /\ qpc = "returned" /\ qcalc) =>
        /\ qseeds[2] = qseeds[1] /\ qseeds[3] = qseeds[1]
        /\ qpoints[2] = qpoints[1] /\ qpoints[3] = qpoints[1]

\* C17: a result of kiko_quasi_mc has a standard error that is not
\* negative and an interval of 1.96 standard errors on either side of the
\* price, so that the price lies in it; the interval the Asian callback
\* displays is built in the same way from the price and the standard error.
C17_IntervalSymmetric ==
    /\ (qentry = "kiko_quasi_mc" /\ qpc = "returned") =>
          /\ qstderr >= 0
          /\ qconf[1] = qprice - MulFx(Z95, qstderr)
          /\ qconf[2] = qprice + MulFx(Z95, qstderr)
          /\ qprice - qconf[1] = qconf[2] - qprice
          /\ qconf[1] <= qprice /\ qprice <= qconf[2]
    /\ (qentry = "calculate_arithmetic_asian" /\ qpc = "rendered") =>
          /\ qconf[1] = qprice - MulFx(Z95, qstderr)
          /\ qconf[2] = qprice + MulFx(Z95, qstderr)

\* kiko_quasi_mc has returned a price with a positive standard error.
C17_Witness ==
    /\ qentry = "kiko_quasi_mc" /\ qpc = "returned"
    /\ qstderr > 0 /\ qconf[1] < qprice /\ qprice < qconf[2]

\* ---------------------------------------------------------------------
\* Claims about the observations of the KIKO pricer
\* ---------------------------------------------------------------------

\* The prices of a row at the monitoring times t_1..t_n: the row without
\* its first entry, the spot at time 0.
Monitored(path) == Tail(path)

\* C20: the barriers are tested at the n monitoring times only; the spot at
\* time 0 is not an observation, so the payoff of a row is the one its
\* prices at t_1..t_n give.
C20_Original ==
    KRowDone =>
        LastOf(kpayoffs) = calculate_payoffs(Monitored(kpath), kK, kL, kU, kR)

\* ---------------------------------------------------------------------
\* Claims about the paths behind the control payoffs
\* ---------------------------------------------------------------------

\* C19: with control_variate = 'geometric', for every path index i the
\* control payoff Y[i] is computed from the same simulated prices, driven
\* by the same draws, as the payoff X[i].
C19_Original ==
    (ppc = "returned" /\ pcv = "geometric") =>
        /\ Len(pYpaths) = Len(pXpaths)
        /\ \A i \in 1..Len(pXpaths) :
              /\ pYpaths[i] = pXpaths[i]
              /\ pYdraws[i] = pXdraws[i]

\* ---------------------------------------------------------------------
\* Claims about the reference value of the control variate
\* ---------------------------------------------------------------------

\* The reference value of a request that asks for one simulation.
ReferenceOfOne(entry, option_type) ==
    IF entry = "arithmetic_basket_mc"
    THEN geometric_basket(option_type,
             SubSeq(PairStream(entry, 4 * ReqN), 2 * ReqN + 1, 4 * ReqN))
    ELSE geometric_asian_exact(ReqS, ReqSigma, ReqR, ReqT, ReqK, ReqN, option_type)

\* C21: in the adjustment the control payoffs Y[i] and the reference value
\* subtracted from them carry the same discount factor, and the reference
\* value is the known expectation of Y: it is fixed by the contract and does
\* not move with the draws or with the number of simulations.
C21_Original ==
    (ppc = "returned" /\ pcv = "geometric") =>
        /\ pYdisc = prefdisc
        /\ pref = <<ReferenceOfOne(pentry, ptype)>>

\* ---------------------------------------------------------------------
\* Claims about the coefficient of the control variate
\* ---------------------------------------------------------------------

\* C22: the coefficient is Cov(X, Y) / Var(Y) with both sample moments taken
\* over the same paths with the same divisor, so that the divisors cancel;
\* and the additive form of arithmetic_asian_mc gives the same adjusted
\* payoffs as the form of arithmetic_basket_mc.
C22_Original ==
    /\ (cvpc \in {"coefficient", "adjusted", "done"} /\ cv_mode = "geometric" /\ ~beta.nan)
          => beta.num * VarNum(cv_geo_payoffs)
                = CovNum(cv_payoffs, cv_geo_payoffs) * beta.den
    /\ (cvpc \in {"adjusted", "done"} /\ cv_mode = "geometric" /\ ~adjusted_payoffs.nan)
          => \A i \in 1..Len(cv_payoffs) :
                adjusted_payoffs.nums[i]
                   = AsianAdjusted(cv_payoffs[i], cv_geo_payoffs[i], cv_geo_price, beta)

\* ---------------------------------------------------------------------
\* Claims about the averages of the basket
\* ---------------------------------------------------------------------

\* The mean of all the prices of the two assets on a path.
MeanOfPrices(path) ==
    TDiv(SumTo(path[1], ReqN - 1) + SumTo(path[2], ReqN - 1), 2 * ReqN)

\* C23: the basket level arithmetic_basket_mc compares with the strike is
\* the simple average of the two assets' prices, (S1 + S2) / 2: the mean of
\* the prices of the path, which is c when every price is c.
C23_Original ==
    (pentry = "arithmetic_basket_mc" /\ ppc \in {"arith", "reference", "geo", "returned"}) =>
        \A i \in 1..Len(pXlevel) :
            Abs(pXlevel[i] - MeanOfPrices(pXpaths[i])) <= 1

\* C28: the geometric average behind the control payoffs of
\* arithmetic_basket_mc is the same function of the observed prices as the
\* one behind the reference price of geometric_basket, the 2n-th root of
\* the product of the 2n prices.
C28_Original ==
    (pentry = "arithmetic_basket_mc" /\ ppc \in {"geo", "returned"}) =>
        \A i \in 1..Len(pYlevel) :
            Abs(pYlevel[i] - reference_geo_avg(pYpaths[i][1], pYpaths[i][2])) <= FxTol

\* ---------------------------------------------------------------------
\* Claims about the closed forms of the geometric Asian option
\* ---------------------------------------------------------------------

\* C29: the three closed forms use the same effective variance
\* sigma^2 * T * (n+1)(2n+1) / (6 n^2) and the same effective drift for
\* every n >= 1, and give the same price for the same contract.
C29_Original ==
    (gpc = "done") =>
        /\ \A k \in 1..3 :
              /\ Abs(gvariance[k] - MulFx(MulFx(MulFx(gsigma, gsigma), gT),
                                          AsianVarianceRatio(gn))) <= FxTol
              /\ Abs(gdrift[k] - gdrift[1]) <= FxTol
        /\ \A k \in 1..3 : Abs(gprices[k] - gprices[1]) <= FxTol

====
